---------------------------- MODULE Spec2Model ----------------------------
(***************************************************************************)
(* A model of the indexed tensor algebra of diffgeom (src/diffgeom).       *)
(*                                                                         *)
(* Python objects are records, Python dicts are functions whose DOMAIN is  *)
(* the set of stored keys, Python tuples and strings of index positions    *)
(* are sequences.  Tuple positions and slot numbers are 0-based in the     *)
(* source; a slot number s of the source is element s + 1 of a sequence.   *)
(*                                                                         *)
(* Symbolic values come in two forms.  Where every entry is a constant,    *)
(* they are the integers: their +, -, * are sympy's, `value == 0` is exact *)
(* on them and the derivative of each of them is 0; a metric is drawn with *)
(* determinant 1 or -1, so that its inverse is again a matrix of integers. *)
(* Where entries depend on the coordinates, they are Laurent polynomials   *)
(* in the coordinates and their first derivatives along a curve, held in   *)
(* the canonical form sympy keeps them in.                                 *)
(*                                                                         *)
(* Most specifications treat objects as values.  SpecStore follows the     *)
(* objects in memory, so that two objects can hold the same dict.          *)
(***************************************************************************)
EXTENDS Integers, Sequences, FiniteSets, TLC

VARIABLES
    manifold,   \* the Manifold instance every tensor is bound to
    A,          \* the (left) operand: an IndexedObject
    B,          \* the right operand: a Tensor
    res,        \* the outcome of the last call: what it returned or raised
    heap        \* the objects in memory, where a specification follows them

vars == <<manifold, A, B, res, heap>>

---------------------------------------------------------------------------
(* Bounds *)

\* items in the values mapping handed to a constructor
MaxItems == 2

\* stored entries an object may hold after a component write
MaxStored == 1

\* the values handed to constructors and writes, and the scalars
Vals == {-1, 0, 1}

---------------------------------------------------------------------------
(* Exceptions and the outcome of a call *)

NoExc == "none"
KeyError == "KeyError"
RuntimeError == "RuntimeError"
IndexError == "IndexError"
IncompatibleIndexPositionException == "IncompatibleIndexPositionException"

None == [none |-> TRUE]

Return(v) == [exc |-> NoExc, val |-> v]
Raise(e) == [exc |-> e, val |-> None]

---------------------------------------------------------------------------
(* The symbolic expression system, on the integers *)

VZero == 0
VAdd(a, b) == a + b
VSub(a, b) == a - b
VMul(a, b) == a * b
VNeg(a) == 0 - a
\* sympy's `value == 0`
IsZero(v) == v = 0

---------------------------------------------------------------------------
(* Python dicts *)

EmptyDict == [k \in {} |-> VZero]
DictSet(d, k, v) == [x \in (DOMAIN d) \cup {k} |-> IF x = k THEN v ELSE d[x]]
DictDel(d, k) == [x \in (DOMAIN d) \ {k} |-> d[x]]
DictGet(d, k, default) == IF k \in DOMAIN d THEN d[k] ELSE default

---------------------------------------------------------------------------
(* An index of one slot: a Python int or a coordinate name (a sympy symbol) *)

IntIdx(i) == [isint |-> TRUE, i |-> i, name |-> ""]
NameIdx(s) == [isint |-> FALSE, i |-> 0, name |-> s]

Range(n) == 0 .. (n - 1)

\* a multi-index as written by the caller: a tuple (a list), or one bare index,
\* which has no __len__
Tuple(s) == [haslen |-> TRUE, items |-> s]
Bare(x) == [haslen |-> FALSE, items |-> <<x>>]

\* a key of the values mapping handed to a constructor: a bare int or a tuple
IntKey(i) == [isint |-> TRUE, i |-> i, tuple |-> <<>>]
TupleKey(t) == [isint |-> FALSE, i |-> 0, tuple |-> t]

---------------------------------------------------------------------------
(* IndexedObject *)

\* the positions counted from the last coordinate
names_map_reversed(names) ==
    [n \in {names[k + 1] : k \in Range(Len(names))} |->
        (Len(names) - 1) - (CHOOSE k \in Range(Len(names)) :
            /\ names[k + 1] = n
            /\ \A j \in Range(Len(names)) : j > k => names[j + 1] # n)]

\* names_map = {n: k for k, n in enumerate(names)}: the last position of a name
names_map_of(names) ==
    [n \in {names[k + 1] : k \in Range(Len(names))} |->
        CHOOSE k \in Range(Len(names)) :
            /\ names[k + 1] = n
            /\ \A j \in Range(Len(names)) : j > k => names[j + 1] # n]

\* the constructor's key: `key = key,` for an int, tuple(key) otherwise
NormKey(key) == IF key.isint THEN <<key.i>> ELSE key.tuple

IndexedObject_init(values, names, idx_pos) ==
    LET kept == {key \in DOMAIN values : ~IsZero(values[key])}
    IN  [ idx_pos   |-> idx_pos,
          names_map |-> names_map_of(names),
          values    |-> [k \in {NormKey(key) : key \in kept} |->
                            values[CHOOSE key \in kept : NormKey(key) = k]] ]

IndexedObject_len(self) == Cardinality(DOMAIN self.values)

translate_multi_idx(self, m_idx) ==
    LET items == m_idx.items   \* (m_idx,) when m_idx has no __len__
    IN  IF \E p \in DOMAIN items :
               ~items[p].isint /\ items[p].name \notin DOMAIN self.names_map
        THEN Raise(KeyError)
        ELSE Return([p \in DOMAIN items |->
                        IF items[p].isint THEN items[p].i
                        ELSE self.names_map[items[p].name]])

getitem(self, m_idx) ==
    LET t == translate_multi_idx(self, m_idx)
    IN  IF t.exc # NoExc THEN t
        ELSE Return(DictGet(self.values, t.val, VZero))

\* a write that stores the zero it is handed
setitem_keepzero(self, m_idx, value) ==
    LET t == translate_multi_idx(self, m_idx)
    IN  IF t.exc # NoExc THEN t
        ELSE Return([self EXCEPT !.values = DictSet(self.values, t.val, value)])

\* the object after self[m_idx] = value
setitem(self, m_idx, value) ==
    LET t == translate_multi_idx(self, m_idx)
    IN  IF t.exc # NoExc THEN t
        ELSE LET stored == DictSet(self.values, t.val, value)
             IN  Return([self EXCEPT !.values =
                            IF IsZero(value) THEN DictDel(stored, t.val)
                            ELSE stored])

---------------------------------------------------------------------------
(* Matrices of expressions: a function on Range(n) \X Range(n) *)

RECURSIVE VSum(_, _)
\* f[0] + ... + f[n - 1]
VSum(f, n) == IF n = 0 THEN VZero ELSE VAdd(VSum(f, n - 1), f[n - 1])

Minor(m, n, r, c) ==
    [ij \in Range(n - 1) \X Range(n - 1) |->
        m[<<IF ij[1] < r THEN ij[1] ELSE ij[1] + 1,
            IF ij[2] < c THEN ij[2] ELSE ij[2] + 1>>]]

Sign(k) == IF k % 2 = 0 THEN 1 ELSE -1

RECURSIVE Det(_, _)
Det(m, n) ==
    IF n = 0 THEN 1
    ELSE VSum([j \in Range(n) |->
                  VMul(VMul(Sign(j), m[<<0, j>>]), Det(Minor(m, n, 0, j), n - 1))], n)

\* sympy's Matrix.inv(), by cofactors; the division is exact for the metrics drawn
MatrixInv(m, n) ==
    [ij \in Range(n) \X Range(n) |->
        VMul(Sign(ij[1] + ij[2]), Det(Minor(m, n, ij[2], ij[1]), n - 1)) \div Det(m, n)]

\* sp.diff(expr, x): the expressions of the model are constants
VDiff(expr, x) == VZero

---------------------------------------------------------------------------
(* Christoffel *)

KeyIdx(key) == Tuple([p \in DOMAIN key |-> IntIdx(key[p])])

Christoffel_init(coords, metric) ==
    LET self == IndexedObject_init(EmptyDict, coords, <<"u", "l", "l">>)
        x == coords
        g == metric
        n == Len(x)
        g_inv == MatrixInv(g, n)
        gamma(mu, alpha, beta) ==
            VSum([nu \in Range(n) |->
                     VMul(g_inv[<<mu, nu>>],
                          VSub(VAdd(VDiff(g[<<alpha, nu>>], x[beta + 1]),
                                    VDiff(g[<<nu, beta>>], x[alpha + 1])),
                               VDiff(g[<<alpha, beta>>], x[nu + 1])))], n)
        keys == {k \in Range(n) \X Range(n) \X Range(n) :
                    ~IsZero(gamma(k[1], k[2], k[3]))}
    IN  [self EXCEPT !.values =
            [k \in keys |-> gamma(k[1], k[2], k[3]) \div 2]]

---------------------------------------------------------------------------
(* Manifold *)

Manifold_init(id, metric, coords) ==
    [ id     |-> id,
      metric |-> metric,          \* self._metric
      coords |-> coords,
      gammas |-> Christoffel_init(coords, metric) ]

Manifold_dims(M) == Len(M.coords)

---------------------------------------------------------------------------
(* Tensor *)

\* values=None
NoValues == EmptyDict

Tensor_init(M, idx_pos, values) ==
    ("manifold" :> M.id) @@ IndexedObject_init(values, M.coords, idx_pos)

rank(self) == Len(self.idx_pos)

multi_indices(M, self) ==
    [1 .. rank(self) -> Range(Manifold_dims(M))]

Manifold_metric(M) ==
    Tensor_init(M, <<"l", "l">>,
        [key \in {TupleKey(<<i, j>>) : i \in Range(Manifold_dims(M)),
                                       j \in Range(Manifold_dims(M))} |->
            M.metric[key.tuple]])

\* an inverse that is the identity matrix whatever the metric
Manifold_metric_inv_identity(M) ==
    Tensor_init(M, <<"u", "u">>,
        [key \in {TupleKey(<<i, j>>) : i \in Range(Manifold_dims(M)),
                                       j \in Range(Manifold_dims(M))} |->
            IF key.tuple[1] = key.tuple[2] THEN 1 ELSE 0])

Manifold_metric_inv(M) ==
    LET inv == MatrixInv(M.metric, Manifold_dims(M))
    IN  Tensor_init(M, <<"u", "u">>,
            [key \in {TupleKey(<<i, j>>) : i \in Range(Manifold_dims(M)),
                                           j \in Range(Manifold_dims(M))} |->
                inv[key.tuple]])

\* the guard compares the ranks only
guard_compares_rank(self, other) ==
    IF Len(self.idx_pos) # Len(other.idx_pos)
    THEN Raise(IncompatibleIndexPositionException)
    ELSE Return(None)

guard_is_compatible_with(self, other) ==
    IF self.idx_pos # other.idx_pos
    THEN Raise(IncompatibleIndexPositionException)
    ELSE Return(None)

\* the value of result[m_idx] on an object no key of which fails to translate
Item(self, key) == getitem(self, KeyIdx(key)).val
\* the object after result[m_idx] = value, the same
SetItem(self, key, value) == setitem(self, KeyIdx(key), value).val

RECURSIVE store_loop(_, _, _)
\* for m_idx, value in d.items(): result[m_idx] = value
store_loop(result, d, todo) ==
    IF todo = {} THEN result
    ELSE LET m_idx == CHOOSE k \in todo : TRUE
         IN  store_loop(SetItem(result, m_idx, d[m_idx]), d, todo \ {m_idx})

RECURSIVE iadd_loop_assigns(_, _, _)
\* for m_idx, value in d.items(): result[m_idx] = value
iadd_loop_assigns(result, d, todo) ==
    IF todo = {} THEN result
    ELSE LET m_idx == CHOOSE k \in todo : TRUE
         IN  iadd_loop_assigns(SetItem(result, m_idx, d[m_idx]), d, todo \ {m_idx})

RECURSIVE iadd_loop(_, _, _)
\* for m_idx, value in d.items(): result[m_idx] += value
iadd_loop(result, d, todo) ==
    IF todo = {} THEN result
    ELSE LET m_idx == CHOOSE k \in todo : TRUE
         IN  iadd_loop(SetItem(result, m_idx, VAdd(Item(result, m_idx), d[m_idx])),
                       d, todo \ {m_idx})

RECURSIVE isub_loop(_, _, _)
\* for m_idx, value in d.items(): result[m_idx] -= value
isub_loop(result, d, todo) ==
    IF todo = {} THEN result
    ELSE LET m_idx == CHOOSE k \in todo : TRUE
         IN  isub_loop(SetItem(result, m_idx, VSub(Item(result, m_idx), d[m_idx])),
                       d, todo \ {m_idx})

Tensor_add(M, self, other) ==
    IF guard_is_compatible_with(self, other).exc # NoExc
    THEN guard_is_compatible_with(self, other)
    ELSE LET result == Tensor_init(M, self.idx_pos, NoValues)
             first == store_loop(result, self.values, DOMAIN self.values)
         IN  Return(iadd_loop(first, other.values, DOMAIN other.values))

Tensor_sub(M, self, other) ==
    IF guard_is_compatible_with(self, other).exc # NoExc
    THEN guard_is_compatible_with(self, other)
    ELSE LET result == Tensor_init(M, self.idx_pos, NoValues)
             first == store_loop(result, self.values, DOMAIN self.values)
         IN  Return(isub_loop(first, other.values, DOMAIN other.values))

\* copy.deepcopy(self): the attributes are copied with it, the Manifold too, so
\* the copy is bound to a Manifold instance of its own (the instance after id)
deepcopy(self) == [self EXCEPT !.manifold = self.manifold + 1]

RECURSIVE scale_loop(_, _, _, _)
\* for key, value in result.values.items(): result[key] *= other
\* The dict's iterator raises as soon as it is asked for the next item of a
\* dict whose size is no longer `size`, the size it started with.
scale_loop(result, other, todo, size) ==
    IF IndexedObject_len(result) # size THEN Raise(RuntimeError)
    ELSE IF todo = {} THEN Return(result)
    ELSE LET key == CHOOSE k \in todo : TRUE
         IN  scale_loop(SetItem(result, key, VMul(Item(result, key), other)),
                        other, todo \ {key}, size)

Tensor_rmul(self, other) ==
    LET result == deepcopy(self)
    IN  scale_loop(result, other, DOMAIN result.values, IndexedObject_len(result))

\* m_idx[-n:], wrong unless n is half the length
Left_from_end(m_idx, n) == SubSeq(m_idx, Len(m_idx) - n + 1, Len(m_idx))

\* m_idx[:n] and m_idx[n:]
Left(m_idx, n) == SubSeq(m_idx, 1, n)
Right(m_idx, n) == SubSeq(m_idx, n + 1, Len(m_idx))

\* The object after a loop whose iterations write different keys of result:
\* `left` holds, for each key written, the entries of result after the
\* iterations of that key alone, and the loop leaves what each of them leaves.
Gather(result, left) ==
    [result EXCEPT !.values =
        [key \in UNION {DOMAIN d : d \in left} |->
            (CHOOSE d \in left : key \in DOMAIN d)[key]]]

\* for m_idx in result.multi_indices:
\*     result[m_idx] = self[m_idx[:self.rank]] * other[m_idx[self.rank:]]
product_loop(result, self, other, todo) ==
    LET after(m_idx) ==
            SetItem(result, m_idx,
                    VMul(Item(self, Left(m_idx, rank(self))),
                         Item(other, Right(m_idx, rank(self)))))
    IN  Gather(result, {after(m).values : m \in todo})

\* self * other for a Tensor other
Tensor_mul_tensor(M, self, other) ==
    LET result == Tensor_init(M, self.idx_pos \o other.idx_pos, NoValues)
    IN  Return(product_loop(result, self, other, multi_indices(M, result)))

\* self * other for any other `other`
Tensor_mul_scalar(self, other) ==
    LET result == deepcopy(self)
    IN  scale_loop(result, other, DOMAIN result.values, IndexedObject_len(result))

\* the sequence s after `del s[i]` (i a 0-based position of s)
Del(s, i) == [p \in 1 .. (Len(s) - 1) |-> IF p <= i THEN s[p] ELSE s[p + 1]]

\* the sequence s with x put in before 0-based position i
Ins(s, i, x) ==
    [p \in 1 .. (Len(s) + 1) |->
        IF p <= i THEN s[p] ELSE IF p = i + 1 THEN x ELSE s[p - 1]]

RECURSIVE contract_sum_assigns(_, _, _, _, _, _)
\* the iterations with `result[m_idx] = value` in place of `+=`
contract_sum_assigns(result, self, idx1, idx2, key, n) ==
    IF n = 0 THEN result
    ELSE LET before == contract_sum_assigns(result, self, idx1, idx2, key, n - 1)
             m_idx == Ins(Ins(key, idx1, n - 1), idx2, n - 1)
             value == Item(self, m_idx)
         IN  SetItem(before, key, value)

RECURSIVE contract_sum(_, _, _, _, _, _)
\* the iterations that add to result[key]: m_idx is key with k in slots idx1
\* and idx2, for k = 0, ..., n - 1
contract_sum(result, self, idx1, idx2, key, n) ==
    IF n = 0 THEN result
    ELSE LET before == contract_sum(result, self, idx1, idx2, key, n - 1)
             m_idx == Ins(Ins(key, idx1, n - 1), idx2, n - 1)
             value == Item(self, m_idx)
         IN  SetItem(before, key, VAdd(Item(before, key), value))

\* for m_idx in self.multi_indices:
\*     if m_idx[idx1] != m_idx[idx2]: continue
\*     value = self[m_idx]; del m_idx[idx2]; del m_idx[idx1]
\*     result[m_idx] += value
contract_loop(result, self, idx1, idx2, todo) ==
    LET keys == {Del(Del(m_idx, idx2), idx1) :
                    m_idx \in {m \in todo : m[idx1 + 1] = m[idx2 + 1]}}
        n == Cardinality({m[idx1 + 1] : m \in todo})
        after(key) == contract_sum(result, self, idx1, idx2, key, n)
    IN  Gather(result, {after(m).values : m \in keys})

\* self.contract(idx1, idx2) for two different slots of self
contract(M, self, idx1, idx2) ==
    LET lo == IF idx2 < idx1 THEN idx2 ELSE idx1
        hi == IF idx2 < idx1 THEN idx1 ELSE idx2
        idx_pos == Del(Del(self.idx_pos, hi), lo)
        result == Tensor_init(M, idx_pos, NoValues)
    IN  Return(contract_loop(result, self, lo, hi, multi_indices(M, self)))

RECURSIVE metric_sum_fixed(_, _, _, _, _, _)
\* the inner loop reading self[m_idx] where it should read self[m_idx_var]
metric_sum_fixed(result, self, g, idx, m_idx, n) ==
    IF n = 0 THEN result
    ELSE LET before == metric_sum_fixed(result, self, g, idx, m_idx, n - 1)
             sigma == n - 1
             term == VMul(Item(g, <<m_idx[idx + 1], sigma>>), Item(self, m_idx))
         IN  SetItem(before, m_idx, VAdd(Item(before, m_idx), term))

RECURSIVE metric_sum(_, _, _, _, _, _)
\* for sigma in range(dims):
\*     m_idx_var = list(m_idx); m_idx_var[idx] = sigma
\*     result[m_idx] += g[m_idx[idx], sigma] * self[m_idx_var]
\* for sigma = 0, ..., n - 1
metric_sum(result, self, g, idx, m_idx, n) ==
    IF n = 0 THEN result
    ELSE LET before == metric_sum(result, self, g, idx, m_idx, n - 1)
             sigma == n - 1
             m_idx_var == [m_idx EXCEPT ![idx + 1] = sigma]
             term == VMul(Item(g, <<m_idx[idx + 1], sigma>>), Item(self, m_idx_var))
         IN  SetItem(before, m_idx, VAdd(Item(before, m_idx), term))

\* for m_idx in self.multi_indices: the loop over sigma
metric_loop(result, self, g, idx, dims, todo) ==
    LET after(m_idx) == metric_sum(result, self, g, idx, m_idx, dims)
    IN  Gather(result, {after(m).values : m \in todo})

\* a test that is never true (the flag spelled as no signature spells it)
is_at_never(self, idx, pos) == FALSE

\* self.idx_pos[idx] == pos
is_at(self, idx, pos) == self.idx_pos[idx + 1] = pos

\* (g * self).contract(1, 2 + idx), g a rank-2 tensor
by_product(M, g, self, idx) ==
    contract(M, Tensor_mul_tensor(M, g, self).val, 1, 2 + idx)

\* lower_index as the product with the metric, contracted: the lowered slot
\* comes out in front
lower_index_in_front(M, self, idx) ==
    IF is_at(self, idx, "l")
    THEN Raise(IncompatibleIndexPositionException)
    ELSE by_product(M, Manifold_metric(M), self, idx)

lower_index(M, self, idx) ==
    IF is_at(self, idx, "l")
    THEN Raise(IncompatibleIndexPositionException)
    ELSE LET g == Manifold_metric(M)
             idx_pos == [self.idx_pos EXCEPT ![idx + 1] = "l"]
             result == Tensor_init(M, idx_pos, NoValues)
             dims == Manifold_dims(M)
         IN  Return(metric_loop(result, self, g, idx, dims, multi_indices(M, self)))

raise_index(M, self, idx) ==
    IF is_at(self, idx, "u")
    THEN Raise(IncompatibleIndexPositionException)
    ELSE LET g_inv == Manifold_metric_inv(M)
             idx_pos == [self.idx_pos EXCEPT ![idx + 1] = "u"]
             result == Tensor_init(M, idx_pos, NoValues)
             dims == Manifold_dims(M)
         IN  Return(metric_loop(result, self, g_inv, idx, dims, multi_indices(M, self)))

\* the 0-based position Python reads the list index i of a list of length n
\* at: a negative index counts from the end
PyPos(n, i) == IF i < 0 THEN n + i ELSE i
\* list indices outside [-n, n) raise IndexError
PyInRange(n, i) == 0 - n <= i /\ i < n

RECURSIVE accumulate(_, _, _, _)
\* result[key] += self[m_idx] for the multi-indices m_idx of `todo`
accumulate(result, self, key, todo) ==
    IF todo = {} THEN result
    ELSE LET m_idx == CHOOSE m \in todo : TRUE
             before == accumulate(result, self, key, todo \ {m_idx})
         IN  SetItem(before, key, VAdd(Item(before, key), Item(self, m_idx)))

\* self.contract(idx1, idx2) for any two ints
contract_py(M, self, idx1, idx2) ==
    LET lo == IF idx2 < idx1 THEN idx2 ELSE idx1
        hi == IF idx2 < idx1 THEN idx1 ELSE idx2
        r == rank(self)
    IN  IF ~PyInRange(r, hi) \/ ~PyInRange(r - 1, lo)
        THEN Raise(IndexError)     \* del idx_pos[idx2]; del idx_pos[idx1]
        ELSE LET cut(s) == Del(Del(s, PyPos(r, hi)), PyPos(r - 1, lo))
                 result == Tensor_init(M, cut(self.idx_pos), NoValues)
                 met == {m \in multi_indices(M, self) :
                            m[PyPos(r, lo) + 1] = m[PyPos(r, hi) + 1]}
             IN  Return(Gather(result,
                     {accumulate(result, self, key, {m \in met : cut(m) = key}).values :
                         key \in {cut(m) : m \in met}}))

\* self.lower_index(idx).raise_index(idx)
lower_raise(M, self, idx) ==
    LET lowered == lower_index(M, self, idx)
    IN  IF lowered.exc # NoExc THEN lowered ELSE raise_index(M, lowered.val, idx)

\* self.raise_index(idx).lower_index(idx)
raise_lower(M, self, idx) ==
    LET raised == raise_index(M, self, idx)
    IN  IF raised.exc # NoExc THEN raised ELSE lower_index(M, raised.val, idx)

---------------------------------------------------------------------------
(* The symbolic expression system, with symbols.  An expression is a sum of *)
(* monomials c * s1^e1 * ... * sk^ek, c a nonzero integer and the e's       *)
(* integers: a function from exponent tuples to coefficients that holds     *)
(* the monomials of nonzero coefficient only.  sympy keeps sums and         *)
(* products of such monomials in this form, so `==` on them is equality of  *)
(* the functions.                                                           *)

\* the symbols an expression is built from: the coordinates, and sin(a) and
\* cos(a) of a parameter a that is no coordinate (their derivatives are 0)
Symbols == <<"r", "phi", "x", "y", "u", "v", "sin(a)", "cos(a)">>

SymPos(name) == CHOOSE i \in DOMAIN Symbols : Symbols[i] = name

\* exponent tuples: element i is the exponent of Symbols[i], element
\* Len(Symbols) + i that of Derivative(Symbols[i], s)
Unit == [i \in 1 .. (2 * Len(Symbols)) |-> 0]

EZero == [k \in {} |-> 0]
EConst(c) == [k \in (IF c = 0 THEN {} ELSE {Unit}) |-> c]
\* c * name ** e
EPow(c, name, e) == [k \in {[Unit EXCEPT ![SymPos(name)] = e]} |-> c]
\* sp.Derivative(name, s)
EDerivative(name) == [k \in {[Unit EXCEPT ![Len(Symbols) + SymPos(name)] = 1]} |-> 1]

ECoef(p, k) == IF k \in DOMAIN p THEN p[k] ELSE 0

\* the sum with the monomials of coefficient 0 left out
ENormal(c) == [k \in {x \in DOMAIN c : c[x] # 0} |-> c[k]]

EAdd(p, q) == ENormal([k \in (DOMAIN p) \cup (DOMAIN q) |-> ECoef(p, k) + ECoef(q, k)])
ENeg(p) == [k \in DOMAIN p |-> 0 - p[k]]
ESub(p, q) == EAdd(p, ENeg(q))

RECURSIVE SumFn(_)
\* the sum of the values of a function of finite domain
SumFn(f) ==
    IF DOMAIN f = {} THEN 0
    ELSE LET k == CHOOSE x \in DOMAIN f : TRUE
         IN  f[k] + SumFn([x \in (DOMAIN f) \ {k} |-> f[x]])

EMul(p, q) ==
    LET pairs == (DOMAIN p) \X (DOMAIN q)
        times(kk) == [i \in DOMAIN Unit |-> kk[1][i] + kk[2][i]]
    IN  ENormal([k \in {times(kk) : kk \in pairs} |->
                    SumFn([kk \in {x \in pairs : times(x) = k} |->
                              p[kk[1]] * q[kk[2]]])])

\* sympy's `value == 0` and `value != 0`
EIsZero(p) == DOMAIN p = {}

\* sp.diff(expr, x), x a coordinate symbol
EDiff(p, name) ==
    LET i == SymPos(name)
        up(k) == [k EXCEPT ![i] = k[i] + 1]
    IN  [k \in {[m EXCEPT ![i] = m[i] - 1] : m \in {x \in DOMAIN p : x[i] # 0}} |->
            p[up(k)] * up(k)[i]]

\* expr / 2; the metrics drawn give even coefficients here
EHalf(p) == [k \in DOMAIN p |-> p[k] \div 2]

RECURSIVE ESum(_, _)
\* f[0] + ... + f[n - 1]
ESum(f, n) == IF n = 0 THEN EZero ELSE EAdd(ESum(f, n - 1), f[n - 1])

RECURSIVE EDet(_, _)
EDet(m, n) ==
    IF n = 0 THEN EConst(1)
    ELSE ESum([j \in Range(n) |->
                  EMul(EMul(EConst(Sign(j)), m[<<0, j>>]), EDet(Minor(m, n, 0, j), n - 1))], n)

\* 1 / d for d one monomial of coefficient 1 or -1
EReciprocal(d) == [k \in {[i \in DOMAIN Unit |-> 0 - m[i]] : m \in DOMAIN d} |->
                      d[[i \in DOMAIN Unit |-> 0 - k[i]]]]

\* sympy's Matrix.inv() for a matrix whose determinant is such a monomial
EMatrixInv(m, n) ==
    [ij \in Range(n) \X Range(n) |->
        EMul(EMul(EConst(Sign(ij[1] + ij[2])), EDet(Minor(m, n, ij[2], ij[1]), n - 1)),
             EReciprocal(EDet(m, n)))]

\* self[key] and self[key] = value on an object whose values are such
\* expressions, key an index tuple
ExprItem(self, key) == DictGet(self.values, key, EZero)
ExprSetItem(self, key, value) ==
    LET stored == DictSet(self.values, key, value)
    IN  [self EXCEPT !.values = IF EIsZero(value) THEN DictDel(stored, key) ELSE stored]

\* the shape of a matrix: a function on Range(rows) \X Range(cols)
MatrixRows(m) == Cardinality({ij[1] : ij \in DOMAIN m})
MatrixCols(m) == Cardinality({ij[2] : ij \in DOMAIN m})

NonSquareMatrixError == "NonSquareMatrixError"

\* what Christoffel(coords, metric) raises: g.inv() on a matrix that is not
\* square, g_inv[mu, nu] with an index of range(len(coords)) that the matrix
\* does not have
Christoffel_raises(coords, metric) ==
    IF MatrixRows(metric) # MatrixCols(metric) THEN NonSquareMatrixError
    ELSE IF Len(coords) > MatrixRows(metric) THEN IndexError
    ELSE NoExc

\* the connection with the third derivative added where it is subtracted
Christoffel_expr_plus(coords, metric) ==
    LET self == IndexedObject_init(EmptyDict, coords, <<"u", "l", "l">>)
        x == coords
        g == metric
        n == Len(x)
        g_inv == EMatrixInv(g, MatrixRows(g))
        gamma(mu, alpha, beta) ==
            ESum([nu \in Range(n) |->
                     EMul(g_inv[<<mu, nu>>],
                          EAdd(EAdd(EDiff(g[<<alpha, nu>>], x[beta + 1]),
                                    EDiff(g[<<nu, beta>>], x[alpha + 1])),
                               EDiff(g[<<alpha, beta>>], x[nu + 1])))], n)
        keys == {k \in Range(n) \X Range(n) \X Range(n) :
                    ~EIsZero(gamma(k[1], k[2], k[3]))}
    IN  [self EXCEPT !.values =
            [k \in keys |-> EHalf(gamma(k[1], k[2], k[3]))]]

\* Christoffel(coords, metric) for a metric of such expressions
Christoffel_expr(coords, metric) ==
    LET self == IndexedObject_init(EmptyDict, coords, <<"u", "l", "l">>)
        x == coords
        g == metric
        n == Len(x)
        g_inv == EMatrixInv(g, MatrixRows(g))
        gamma(mu, alpha, beta) ==
            ESum([nu \in Range(n) |->
                     EMul(g_inv[<<mu, nu>>],
                          ESub(EAdd(EDiff(g[<<alpha, nu>>], x[beta + 1]),
                                    EDiff(g[<<nu, beta>>], x[alpha + 1])),
                               EDiff(g[<<alpha, beta>>], x[nu + 1])))], n)
        keys == {k \in Range(n) \X Range(n) \X Range(n) :
                    ~EIsZero(gamma(k[1], k[2], k[3]))}
    IN  [self EXCEPT !.values =
            [k \in keys |-> EHalf(gamma(k[1], k[2], k[3]))]]

\* Manifold(metric, coords) for a metric of such expressions
Manifold_expr(id, metric, coords) ==
    [ id     |-> id,
      metric |-> metric,
      coords |-> coords,
      gammas |-> Christoffel_expr(coords, metric) ]

\* Manifold(metric, coords): the instance, or what its construction raises
Manifold_new(id, metric, coords) ==
    IF Christoffel_raises(coords, metric) # NoExc
    THEN Raise(Christoffel_raises(coords, metric))
    ELSE Return(Manifold_expr(id, metric, coords))

\* Tensor(M, idx_pos, values) for values of such expressions keyed by tuples
Tensor_expr(M, idx_pos, values) ==
    [Tensor_init(M, idx_pos, NoValues) EXCEPT !.values =
        [k \in {key \in DOMAIN values : ~EIsZero(values[key])} |-> values[k]]]

RECURSIVE diff_value(_, _, _, _, _)
\* `value` after the slots idx = 0, ..., upto - 1 of
\* value = sp.diff(self[m_idx], x)
\* for idx in range(self.rank):
\*     if self.idx_pos[idx] == 'u':
\*         for alpha: value += self[m_idx_var] * gammas[(m_idx[idx], alpha, sigma)]
\*     else:
\*         for alpha: value -= self[m_idx_var] * gammas[(alpha, m_idx[idx], sigma)]
diff_value(M, self, m_idx, sigma, upto) ==
    IF upto = 0 THEN EDiff(ExprItem(self, m_idx), M.coords[sigma + 1])
    ELSE LET idx == upto - 1
             before == diff_value(M, self, m_idx, sigma, idx)
             dims == Manifold_dims(M)
             var(alpha) == [m_idx EXCEPT ![idx + 1] = alpha]
         IN  IF self.idx_pos[idx + 1] = "u"
             THEN EAdd(before,
                       ESum([alpha \in Range(dims) |->
                                EMul(ExprItem(self, var(alpha)),
                                     ExprItem(M.gammas, <<m_idx[idx + 1], alpha, sigma>>))],
                            dims))
             ELSE ESub(before,
                       ESum([alpha \in Range(dims) |->
                                EMul(ExprItem(self, var(alpha)),
                                     ExprItem(M.gammas, <<alpha, m_idx[idx + 1], sigma>>))],
                            dims))

\* the correction of a lower slot added where it is subtracted
diff_all_upper(M, self) ==
    LET result == Tensor_init(M, self.idx_pos \o <<"l">>, NoValues)
        up == [self EXCEPT !.idx_pos = [p \in DOMAIN self.idx_pos |-> "u"]]
        after(key) ==
            ExprSetItem(result, key,
                diff_value(M, up, SubSeq(key, 1, rank(self)), key[rank(self) + 1],
                           rank(self)))
    IN  Return(Gather(result, {after(key).values : key \in multi_indices(M, result)}))

\* self.diff()
Tensor_diff(M, self) ==
    LET result == Tensor_init(M, self.idx_pos \o <<"l">>, NoValues)
        after(key) ==
            ExprSetItem(result, key,
                diff_value(M, self, SubSeq(key, 1, rank(self)), key[rank(self) + 1],
                           rank(self)))
    IN  Return(Gather(result, {after(key).values : key \in multi_indices(M, result)}))

RECURSIVE trig_reduce(_)
\* p with every cos(a) ** 2 written as 1 - sin(a) ** 2
trig_reduce(p) ==
    IF \A k \in DOMAIN p : k[SymPos("cos(a)")] < 2 THEN p
    ELSE LET k == CHOOSE m \in DOMAIN p : m[SymPos("cos(a)")] >= 2
             rest == [m \in (DOMAIN p) \ {k} |-> p[m]]
             term == [m \in {[k EXCEPT ![SymPos("cos(a)")] = @ - 2]} |-> p[k]]
         IN  trig_reduce(EAdd(rest,
                 EMul(term, ESub(EConst(1), EPow(1, "sin(a)", 2)))))

\* sp.simplify(value): of the forms it tries, simplify returns one with the
\* fewest operations, and it is equal to its argument.  The forms here are
\* the value itself and the value after sin(a) ** 2 + cos(a) ** 2 = 1; a
\* value without cos(a) ** 2 is its own simplest form.
sp_simplify(value) ==
    LET reduced == trig_reduce(value)
    IN  IF Cardinality(DOMAIN reduced) < Cardinality(DOMAIN value)
        THEN reduced ELSE value

RECURSIVE simplify_stored(_, _, _)
\* what self holds when the loop of simplify_loop stops, at its end or at
\* the RuntimeError
simplify_stored(self, todo, size) ==
    IF IndexedObject_len(self) # size \/ todo = {} THEN self
    ELSE LET key == CHOOSE k \in todo : TRUE
         IN  simplify_stored(ExprSetItem(self, key, sp_simplify(self.values[key])),
                             todo \ {key}, size)

RECURSIVE simplify_loop(_, _, _)
\* for key, value in self.values.items(): self[key] = sp.simplify(value)
\* (the dict raises when an iteration has changed its size)
simplify_loop(self, todo, size) ==
    IF IndexedObject_len(self) # size THEN Raise(RuntimeError)
    ELSE IF todo = {} THEN Return(self)
    ELSE LET key == CHOOSE k \in todo : TRUE
         IN  simplify_loop(ExprSetItem(self, key, sp_simplify(self.values[key])),
                           todo \ {key}, size)

\* self.simplify()
simplify(self) == simplify_loop(self, DOMAIN self.values, IndexedObject_len(self))

RECURSIVE riemann_sum_sigma(_, _, _, _)
\* for sigma in range(dims):
\*     self[alpha, beta, mu, nu] += C[alpha, sigma, mu] * C[sigma, beta, nu]
\*     self[alpha, beta, mu, nu] -= C[alpha, sigma, nu] * C[sigma, beta, mu]
\* for sigma = 0, ..., n - 1
riemann_sum_sigma(self, C, key, n) ==
    IF n = 0 THEN self
    ELSE LET before == riemann_sum_sigma(self, C, key, n - 1)
             sigma == n - 1
             alpha == key[1]
             beta == key[2]
             mu == key[3]
             nu == key[4]
             added == ExprSetItem(before, key,
                          EAdd(ExprItem(before, key),
                               EMul(ExprItem(C, <<alpha, sigma, mu>>),
                                    ExprItem(C, <<sigma, beta, nu>>))))
         IN  ExprSetItem(added, key,
                 ESub(ExprItem(added, key),
                      EMul(ExprItem(C, <<alpha, sigma, nu>>),
                           ExprItem(C, <<sigma, beta, mu>>))))

\* the loop that leaves out the products of connection entries
riemann_no_products(self, C, x, key) ==
    ExprSetItem(self, key,
        EAdd(ExprItem(self, key),
             ESub(EDiff(ExprItem(C, <<key[1], key[2], key[4]>>), x[key[3] + 1]),
                  EDiff(ExprItem(C, <<key[1], key[2], key[3]>>), x[key[4] + 1]))))

\* one pass of the loop over alpha, beta, mu, nu
riemann_entry(self, C, x, key) ==
    LET first == ExprSetItem(self, key,
                     EAdd(ExprItem(self, key),
                          ESub(EDiff(ExprItem(C, <<key[1], key[2], key[4]>>), x[key[3] + 1]),
                               EDiff(ExprItem(C, <<key[1], key[2], key[3]>>), x[key[4] + 1]))))
    IN  riemann_sum_sigma(first, C, key, Len(x))

\* RiemannTensor(manifold)
RiemannTensor_init(M) ==
    LET self == Tensor_init(M, <<"u", "l", "l", "l">>, NoValues)
        C == M.gammas
        x == M.coords
        filled == Gather(self, {riemann_entry(self, C, x, key).values :
                                   key \in multi_indices(M, self)})
    IN  simplify(filled)

Exception == "Exception"

\* sp.Eq(lhs, rhs), lhs the second derivative of a coordinate
Eq(name, rhs) == [lhs |-> [Derivative |-> name, order |-> 2], rhs |-> rhs]

RECURSIVE geodesic_rhs(_, _, _)
\* rhs after the first `upto` passes of the loops over j and k
geodesic_rhs(M, i, upto) ==
    IF upto = 0 THEN EZero
    ELSE LET n == Manifold_dims(M)
             j == (upto - 1) \div n
             k == (upto - 1) % n
         IN  EAdd(geodesic_rhs(M, i, upto - 1),
                  EMul(EMul(ExprItem(M.gammas, <<i, j, k>>),
                            EDerivative(M.coords[j + 1])),
                       EDerivative(M.coords[k + 1])))

\* the right sides with the connection read at [i, j, j] for every k
geodesic_equations_diagonal(M, parameter) ==
    LET n == Manifold_dims(M)
        rhs(i) == ESum([j \in Range(n) |->
                           EMul(EMul(ExprItem(M.gammas, <<i, j, j>>),
                                     EDerivative(M.coords[j + 1])),
                                EDerivative(M.coords[j + 1]))], n)
    IN  Return(<<[i \in 1 .. n |-> Eq(M.coords[i], rhs(i - 1))], parameter>>)

\* self.geodesic_equations(parameter)
geodesic_equations(M, parameter) ==
    IF \E p \in DOMAIN M.coords : M.coords[p] = parameter
    THEN Raise(Exception)
    ELSE LET n == Manifold_dims(M)
         IN  Return(<<[i \in 1 .. n |->
                         Eq(M.coords[i], geodesic_rhs(M, i - 1, n * n))],
                      parameter>>)

RECURSIVE EPower(_, _)
\* q ** e for e >= 0
EPower(q, e) == IF e = 0 THEN EConst(1) ELSE EMul(EPower(q, e - 1), q)

\* the expression a symbol stands for after .subs(trans): trans is a dict in
\* the order of its items, a sequence of <<old coordinate, expression>>
Substitute(trans, i) ==
    IF i <= Len(Symbols) /\ \E t \in DOMAIN trans : trans[t][1] = Symbols[i]
    THEN trans[CHOOSE t \in DOMAIN trans : trans[t][1] = Symbols[i]][2]
    ELSE [k \in {[Unit EXCEPT ![i] = 1]} |-> 1]

RECURSIVE ESubsMonomial(_, _, _)
\* the product of the first `upto` symbols of the monomial k, substituted; a
\* symbol of negative exponent stands for one monomial in the maps drawn
ESubsMonomial(k, trans, upto) ==
    IF upto = 0 THEN EConst(1)
    ELSE LET before == ESubsMonomial(k, trans, upto - 1)
         IN  IF k[upto] = 0 THEN before
             ELSE IF k[upto] > 0
                  THEN EMul(before, EPower(Substitute(trans, upto), k[upto]))
                  ELSE EMul(before,
                            EPower(EReciprocal(Substitute(trans, upto)), 0 - k[upto]))

RECURSIVE ESubsTerms(_, _, _)
ESubsTerms(p, trans, todo) ==
    IF todo = {} THEN EZero
    ELSE LET k == CHOOSE x \in todo : TRUE
         IN  EAdd(ESubsTerms(p, trans, todo \ {k}),
                  EMul(EConst(p[k]), ESubsMonomial(k, trans, Len(Unit))))

\* expr.subs(trans)
ESubs(p, trans) == ESubsTerms(p, trans, DOMAIN p)

\* the product and the transpose of n x n matrices
EMatMul(a, b, n) ==
    [ij \in Range(n) \X Range(n) |->
        ESum([k \in Range(n) |-> EMul(a[<<ij[1], k>>], b[<<k, ij[2]>>])], n)]
ETranspose(a, n) == [ij \in Range(n) \X Range(n) |-> a[<<ij[2], ij[1]>>]]

\* jacobian: one row for each of trans.values(), one column for each new
\* coordinate
jacobian_rows(new_coords, trans) ==
    [ki \in Range(Len(trans)) \X Range(Len(new_coords)) |->
        EDiff(trans[ki[1] + 1][2], new_coords[ki[2] + 1])]

\* self.transform(new_coords, trans)
Manifold_transform(M, new_coords, trans) ==
    LET n == Len(new_coords)
        jacobian == EMatrixInv(jacobian_rows(new_coords, trans), n)
        g == [ij \in DOMAIN M.metric |-> ESubs(M.metric[ij], trans)]
        new_metric ==
            EMatrixInv(EMatMul(EMatMul(jacobian, g, n), ETranspose(jacobian, n), n), n)
    IN  Manifold_new(M.id + 1, new_metric, new_coords)

---------------------------------------------------------------------------
(* What the callers hand in *)

Diag(d) ==
    [ij \in Range(Len(d)) \X Range(Len(d)) |->
        IF ij[1] = ij[2] THEN d[ij[1] + 1] ELSE VZero]

\* the Euclidean plane (src/tests/test_manifold.py:12), a Minkowski plane and
\* a plane in skewed coordinates
PlaneManifolds ==
    { Manifold_init(1, Diag(<<1, 1>>), <<"x", "y">>),
      Manifold_init(1, Diag(<<-1, 1>>), <<"t", "x">>),
      Manifold_init(1, [ij \in Range(2) \X Range(2) |->
                           IF ij = <<1, 1>> THEN 2 ELSE 1], <<"x", "y">>) }

\* Minkowski space with two space dimensions (src/diffgeom/manifold.py:147)
SpaceManifolds ==
    { Manifold_init(1, Diag(<<-1, 1, 1>>), <<"t", "x", "y">>) }

\* a symbol that is no coordinate of any manifold above
UnknownName == "rho"

Signatures(r) == [1 .. r -> {"u", "l"}]

\* the values mappings with at most MaxItems items, keyed by the tuples of
\* `keys`
ValueMaps(keys) ==
    UNION { [ks -> Vals] : ks \in {x \in SUBSET keys : Cardinality(x) <= MaxItems} }

\* tuple keys of a tensor of rank r; for rank 1 the bare ints as well
\* (src/tests/test_indexed.py:140)
TupleKeys(M, r) == {TupleKey(t) : t \in [1 .. r -> Range(Manifold_dims(M))]}
IntKeys(M) == {IntKey(i) : i \in Range(Manifold_dims(M))}

CtorValues(M, r) ==
    ValueMaps(TupleKeys(M, r)) \cup (IF r = 1 THEN ValueMaps(IntKeys(M)) ELSE {})

\* the tensors Tensor(M, idx_pos, values) of the signatures in `sigs`
Tensors(M, sigs) ==
    { Tensor_init(M, idx_pos, values) :
        <<idx_pos, values>> \in
            UNION { {sig} \X CtorValues(M, Len(sig)) : sig \in sigs } }

\* one slot's index, well spelled: an int of range(dims) or a coordinate
GoodElems(M) ==
    {IntIdx(i) : i \in Range(Manifold_dims(M))}
        \cup {NameIdx(M.coords[p]) : p \in DOMAIN M.coords}

\* and badly: an int below or above range(dims), or a name that is no coordinate
BadElems(M) ==
    {IntIdx(-1), IntIdx(Manifold_dims(M)), NameIdx(UnknownName)}

\* the multi-indices a caller writes for an object of rank r: every tuple well
\* spelled; for rank 1 and 2 also the tuples with one slot spelled badly; for
\* rank 1 the bare index as well
MultiIdx(M, r) ==
    {Tuple(t) : t \in [1 .. r -> GoodElems(M)]}
        \cup (IF r \in {1, 2}
              THEN {Tuple(t) : t \in {u \in [1 .. r -> GoodElems(M) \cup BadElems(M)] :
                        Cardinality({p \in 1 .. r : u[p] \in BadElems(M)}) = 1}}
              ELSE {})
        \cup (IF r = 1 THEN {Bare(x) : x \in GoodElems(M) \cup BadElems(M)} ELSE {})

Call(op, args, out) == [op |-> op, args |-> args, out |-> out]

\* no object is followed in memory
NoHeap == [manifolds |-> <<>>, tensors |-> <<>>, dicts |-> <<>>]

\* no call is under way: the caller is between two statements
Idle == Call("idle", <<>>, Return(None))

\* the caller has taken the outcome of its last call and goes on
Continue ==
    /\ res # Idle
    /\ res' = Idle
    /\ UNCHANGED <<manifold, A, B, heap>>

---------------------------------------------------------------------------
(* Component access: one indexed object, read and written *)

InitIdx ==
    /\ manifold \in PlaneManifolds
    /\ A \in Tensors(manifold, {<<"u">>, <<"u", "l">>})
            \cup {Christoffel_init(manifold.coords, manifold.metric)}
    /\ B = Tensor_init(manifold, <<>>, NoValues)
    /\ res = Idle
    /\ heap = NoHeap

\* A[m_idx] = value
Write ==
    /\ res = Idle
    /\ \E m_idx \in MultiIdx(manifold, rank(A)), value \in Vals :
        LET out == setitem(A, m_idx, value)
        IN  /\ out.exc = NoExc =>
                \/ IndexedObject_len(out.val) <= IndexedObject_len(A)
                \/ IndexedObject_len(out.val) <= MaxStored
            /\ A' = IF out.exc = NoExc THEN out.val ELSE A
            /\ res' = Call("setitem", <<m_idx, value>>,
                           IF out.exc = NoExc THEN Return(None) ELSE out)
            /\ UNCHANGED <<manifold, B, heap>>

\* A[m_idx]
Read ==
    /\ res = Idle
    /\ \E m_idx \in MultiIdx(manifold, rank(A)) :
        /\ res' = Call("getitem", <<m_idx>>, getitem(A, m_idx))
        /\ UNCHANGED <<manifold, A, B, heap>>

\* len(A)
Length ==
    /\ res = Idle
    /\ res' = Call("len", <<>>, Return(IndexedObject_len(A)))
    /\ UNCHANGED <<manifold, A, B, heap>>

NextIdx == Write \/ Read \/ Length \/ Continue

SpecIdx == InitIdx /\ [][NextIdx]_vars

---------------------------------------------------------------------------
(* Operations on two tensors of one manifold *)

\* the plane of most tests, with constant metric
Plane == Manifold_init(1, Diag(<<1, 1>>), <<"x", "y">>)

\* every signature of rank 0, 1 and 2
PairSignatures == UNION {Signatures(r) : r \in 0 .. 2}

\* the Manifold instance a tensor is bound to
ManifoldOf(self) == [manifold EXCEPT !.id = self.manifold]

InitPair ==
    /\ manifold = Plane
    /\ A \in Tensors(manifold, PairSignatures)
    /\ B \in Tensors(manifold, PairSignatures)
    /\ res = Idle
    /\ heap = NoHeap

\* A + B
Add ==
    /\ res = Idle
    /\ res' = Call("add", <<>>, Tensor_add(ManifoldOf(A), A, B))
    /\ UNCHANGED <<manifold, A, B, heap>>

\* A - B
Sub ==
    /\ res = Idle
    /\ res' = Call("sub", <<>>, Tensor_sub(ManifoldOf(A), A, B))
    /\ UNCHANGED <<manifold, A, B, heap>>

\* A * B, B a Tensor
MulTensor ==
    /\ res = Idle
    /\ res' = Call("mul_tensor", <<>>, Tensor_mul_tensor(ManifoldOf(A), A, B))
    /\ UNCHANGED <<manifold, A, B, heap>>

NextPair == Add \/ Sub \/ MulTensor \/ Continue

SpecPair == InitPair /\ [][NextPair]_vars

---------------------------------------------------------------------------
(* Operations on one tensor *)

\* every signature of rank 0, 1 and 2; on a manifold of two dimensions a
\* signature of rank 3 (src/tests/test_indexed.py:13) as well, and on the
\* Euclidean plane one of rank 4
OneSignatures(M) ==
    UNION {Signatures(r) : r \in 0 .. 2}
        \cup (IF Manifold_dims(M) = 2 THEN {<<"u", "l", "u">>} ELSE {})
        \cup (IF M = Plane THEN {<<"u", "l", "l", "u">>} ELSE {})

InitOne ==
    /\ manifold \in PlaneManifolds \cup SpaceManifolds
    /\ A \in Tensors(manifold, OneSignatures(manifold))
    /\ B = Tensor_init(manifold, <<>>, NoValues)
    /\ res = Idle
    /\ heap = NoHeap

\* scalar * A
RMul ==
    /\ res = Idle
    /\ \E scalar \in Vals :
        res' = Call("rmul", <<scalar>>, Tensor_rmul(A, scalar))
    /\ UNCHANGED <<manifold, A, B, heap>>

\* A * scalar
MulScalar ==
    /\ res = Idle
    /\ \E scalar \in Vals :
        res' = Call("mul_scalar", <<scalar>>, Tensor_mul_scalar(A, scalar))
    /\ UNCHANGED <<manifold, A, B, heap>>

\* A.contract(idx1, idx2)
Contract ==
    /\ res = Idle
    /\ \E idx1 \in Range(rank(A)), idx2 \in Range(rank(A)) :
        /\ idx1 # idx2
        /\ res' = Call("contract", <<idx1, idx2>>,
                       contract(ManifoldOf(A), A, idx1, idx2))
    /\ UNCHANGED <<manifold, A, B, heap>>

\* A.lower_index(idx)
LowerIndex ==
    /\ res = Idle
    /\ \E idx \in Range(rank(A)) :
        res' = Call("lower_index", <<idx>>, lower_index(ManifoldOf(A), A, idx))
    /\ UNCHANGED <<manifold, A, B, heap>>

\* A.raise_index(idx)
RaiseIndex ==
    /\ res = Idle
    /\ \E idx \in Range(rank(A)) :
        res' = Call("raise_index", <<idx>>, raise_index(ManifoldOf(A), A, idx))
    /\ UNCHANGED <<manifold, A, B, heap>>

\* A.lower_index(idx).raise_index(idx)
LowerRaise ==
    /\ res = Idle
    /\ \E idx \in Range(rank(A)) :
        res' = Call("lower_raise", <<idx>>, lower_raise(ManifoldOf(A), A, idx))
    /\ UNCHANGED <<manifold, A, B, heap>>

\* A.raise_index(idx).lower_index(idx)
RaiseLower ==
    /\ res = Idle
    /\ \E idx \in Range(rank(A)) :
        res' = Call("raise_lower", <<idx>>, raise_lower(ManifoldOf(A), A, idx))
    /\ UNCHANGED <<manifold, A, B, heap>>

NextOne ==
    \/ RMul \/ MulScalar \/ Contract \/ LowerIndex \/ RaiseIndex
    \/ LowerRaise \/ RaiseLower \/ Continue

SpecOne == InitOne /\ [][NextOne]_vars

---------------------------------------------------------------------------
(* Manifolds whose metric depends on the coordinates *)

\* the side of the largest matrix handed to Manifold(metric, coords)
MaxSide == 3

\* diag(d) for a sequence d of expressions
EDiag(d) ==
    [ij \in Range(Len(d)) \X Range(Len(d)) |->
        IF ij[1] = ij[2] THEN d[ij[1] + 1] ELSE EZero]

\* the matrix of integers m as a matrix of expressions
EMatrix(m) == [ij \in DOMAIN m |-> EConst(m[ij])]

\* the plane in polar coordinates (src/tests/test_manifold.py:33)
Polar == Manifold_expr(1, EDiag(<<EConst(1), EPow(1, "r", 2)>>), <<"r", "phi">>)

\* the planes of PlaneManifolds over (x, y), the polar plane, and three
\* surfaces whose metric depends on r or on phi
Charts ==
    { Manifold_expr(1, EMatrix(M.metric), <<"x", "y">>) : M \in PlaneManifolds }
        \cup { Polar,
               Manifold_expr(1, EDiag(<<EConst(1), EPow(1, "r", 4)>>), <<"r", "phi">>),
               Manifold_expr(1, EDiag(<<EPow(1, "r", 2), EPow(1, "r", 2)>>), <<"r", "phi">>),
               Manifold_expr(1, EDiag(<<EPow(-1, "phi", 2), EConst(1)>>), <<"r", "phi">>) }

\* the metrics handed to Manifold(metric, coords): every shape up to MaxSide,
\* 1 and then 1, -1 or r ** 2 on the diagonal
ShapedMetrics ==
    { [ij \in Range(rows) \X Range(cols) |->
          IF ij[1] # ij[2] THEN EZero ELSE IF ij[1] = 0 THEN EConst(1) ELSE c] :
        rows \in 1 .. MaxSide, cols \in 1 .. MaxSide,
        c \in {EConst(1), EConst(-1), EPow(1, "r", 2)} }

CoordTuples == { <<"x">>, <<"x", "y">>, <<"r", "phi">>, <<"r", "phi", "x">> }

\* the new coordinates and, for each old coordinate, its expression in them:
\* a sum a * u + b * v with a, b of -1, 0, 1
NewCoords == <<"u", "v">>
Linear(a, b) == EAdd(EPow(a, "u", 1), EPow(b, "v", 1))
LinearForms == { Linear(a, b) : a \in {-1, 0, 1}, b \in {-1, 0, 1} }

\* its determinant is 1 or -1 times one monomial: sympy inverts the matrix
\* into expressions of the form above
HasInverse(m, n) ==
    /\ Cardinality(DOMAIN EDet(m, n)) = 1
    /\ \A k \in DOMAIN EDet(m, n) : EDet(m, n)[k] \in {1, -1}

\* the substitution maps of a manifold of two coordinates, its coordinates
\* listed in either order, that transform has an inverse for
TransMaps(M) ==
    { trans \in { <<<<M.coords[p[1]], e1>>, <<M.coords[p[2]], e2>>>> :
                    p \in {<<1, 2>>, <<2, 1>>}, e1 \in LinearForms, e2 \in LinearForms } :
        /\ HasInverse(jacobian_rows(NewCoords, trans), 2)
        /\ HasInverse([ij \in DOMAIN M.metric |-> ESubs(M.metric[ij], trans)], 2) }

InitManifold ==
    /\ manifold \in Charts
    /\ A = Tensor_init(manifold, <<>>, NoValues)
    /\ B = Tensor_init(manifold, <<>>, NoValues)
    /\ res = Idle
    /\ heap = NoHeap

\* Manifold(metric, coords)
NewManifold ==
    /\ res = Idle
    /\ \E metric \in ShapedMetrics, coords \in CoordTuples :
        res' = Call("Manifold", <<metric, coords>>, Manifold_new(2, metric, coords))
    /\ UNCHANGED <<manifold, A, B, heap>>

\* manifold.transform(new_coords, trans)
Transform ==
    /\ res = Idle
    /\ \E trans \in TransMaps(manifold) :
        res' = Call("transform", <<NewCoords, trans>>,
                    Manifold_transform(manifold, NewCoords, trans))
    /\ UNCHANGED <<manifold, A, B, heap>>

\* manifold.geodesic_equations(parameter)
GeodesicEquations ==
    /\ res = Idle
    /\ \E parameter \in {"s", "phi"} :
        res' = Call("geodesic_equations", <<parameter>>,
                    geodesic_equations(manifold, parameter))
    /\ UNCHANGED <<manifold, A, B, heap>>

\* RiemannTensor(manifold)
Riemann ==
    /\ res = Idle
    /\ res' = Call("RiemannTensor", <<>>, RiemannTensor_init(manifold))
    /\ UNCHANGED <<manifold, A, B, heap>>

NextManifold == NewManifold \/ Transform \/ GeodesicEquations \/ Riemann \/ Continue

SpecManifold == InitManifold /\ [][NextManifold]_vars

---------------------------------------------------------------------------
(* Tensors whose entries depend on the coordinates *)

\* the entries handed to the constructor: 1, the first coordinate, minus the
\* square of the second
ExprVals(M) ==
    { EConst(1), EPow(1, M.coords[1], 1), EPow(-1, M.coords[2], 2) }

\* the tensors Tensor(M, idx_pos, values) of rank 0, 1 and 2 with at most
\* MaxItems such entries
ExprTensors(M) ==
    { Tensor_expr(M, idx_pos, values) :
        <<idx_pos, values>> \in
            UNION { {sig} \X UNION { [ks -> ExprVals(M)] :
                        ks \in {x \in SUBSET [1 .. Len(sig) -> Range(Manifold_dims(M))] :
                                   Cardinality(x) <= MaxItems} } :
                    sig \in PairSignatures } }

InitDiff ==
    /\ manifold \in Charts
    /\ A \in ExprTensors(manifold)
    /\ B = Tensor_init(manifold, <<>>, NoValues)
    /\ res = Idle
    /\ heap = NoHeap

\* A.diff()
Diff ==
    /\ res = Idle
    /\ res' = Call("diff", <<>>, Tensor_diff(ManifoldOf(A), A))
    /\ UNCHANGED <<manifold, A, B, heap>>

NextDiff == Diff \/ Continue

SpecDiff == InitDiff /\ [][NextDiff]_vars

---------------------------------------------------------------------------
(* Contraction over any pair of ints *)

InitContract ==
    /\ manifold = Plane
    /\ A \in Tensors(manifold, {<<"u">>, <<"u", "l">>, <<"u", "l", "u">>})
    /\ B = Tensor_init(manifold, <<>>, NoValues)
    /\ res = Idle
    /\ heap = NoHeap

\* A.contract(idx1, idx2), the slots any ints from -(rank + 1) to rank
ContractAny ==
    /\ res = Idle
    /\ \E idx1 \in (0 - (rank(A) + 1)) .. rank(A), idx2 \in (0 - (rank(A) + 1)) .. rank(A) :
        res' = Call("contract", <<idx1, idx2>>,
                    contract_py(ManifoldOf(A), A, idx1, idx2))
    /\ UNCHANGED <<manifold, A, B, heap>>

NextContract == ContractAny \/ Continue

SpecContract == InitContract /\ [][NextContract]_vars

---------------------------------------------------------------------------
(* Lowering and raising any slot of tensors of rank 1 to 3 *)

InitSlot ==
    /\ manifold \in PlaneManifolds
    /\ A \in Tensors(manifold, UNION {Signatures(r) : r \in 1 .. 3})
    /\ B = Tensor_init(manifold, <<>>, NoValues)
    /\ res = Idle
    /\ heap = NoHeap

NextSlot == LowerIndex \/ RaiseIndex \/ Continue

SpecSlot == InitSlot /\ [][NextSlot]_vars

---------------------------------------------------------------------------
(* Simplifying the entries of a tensor in place *)

\* 1, and three sums sympy stores as they are: sin(a)**2 + cos(a)**2, which
\* simplifies to 1, and sin(a)**2 + cos(a)**2 - 1 and
\* r*sin(a)**2 + r*cos(a)**2 - r, which simplify to 0
SimplifyVals ==
    LET one == EAdd(EPow(1, "sin(a)", 2), EPow(1, "cos(a)", 2))
    IN  { EConst(1), one, ESub(one, EConst(1)),
          ESub(EMul(EPow(1, "r", 1), one), EPow(1, "r", 1)) }

InitSimplify ==
    /\ manifold = Polar
    /\ A \in { Tensor_expr(manifold, idx_pos, values) :
                 <<idx_pos, values>> \in
                     UNION { {sig} \X UNION { [ks -> SimplifyVals] :
                                 ks \in {x \in SUBSET [1 .. Len(sig) -> Range(Manifold_dims(manifold))] :
                                            Cardinality(x) <= MaxItems} } :
                             sig \in {<<"u">>, <<"u", "l">>} } }
    /\ B = Tensor_init(manifold, <<>>, NoValues)
    /\ res = Idle
    /\ heap = NoHeap

\* A.simplify(): A is changed in place; the call's argument is self as it
\* was, and it returns None
Simplify ==
    /\ res = Idle
    /\ res' = Call("simplify", <<A>>,
                   IF simplify(A).exc # NoExc THEN simplify(A) ELSE Return(None))
    /\ A' = simplify_stored(A, DOMAIN A.values, IndexedObject_len(A))
    /\ UNCHANGED <<manifold, B, heap>>

\* the caller goes on with the tensor as it was made
Restart ==
    /\ res.op = "simplify"
    /\ res' = Idle
    /\ A' = res.args[1]
    /\ UNCHANGED <<manifold, B, heap>>

NextSimplify == Simplify \/ Restart

SpecSimplify == InitSimplify /\ [][NextSimplify]_vars

---------------------------------------------------------------------------
(* Objects in memory: who holds which dict *)

(* heap.manifolds, heap.tensors and heap.dicts list the Manifold objects, the
   indexed objects and the `values` dicts in the order they were made; an
   object's address is its place in its list.  A Manifold holds the address
   of its connection, an indexed object the addresses of its Manifold and of
   its dict.  In SpecStore the variables manifold, A and B keep what the
   constructors returned, and the operations work on the objects in memory. *)

\* the receiver, self.manifold.gammas, self and other
TheManifold == 1
TheGammas == 1
Self == 2
Other == 3

\* the indexed object at address t as the operations read it through
\* self.values, self.idx_pos and self.manifold
Load(h, t) == [h.tensors[t] EXCEPT !.values = h.dicts[@]]

\* the Manifold at address m as the operations read it
LoadManifold(h, m) ==
    [ id     |-> m,
      metric |-> h.manifolds[m].metric,
      coords |-> h.manifolds[m].coords,
      gammas |-> Load(h, h.manifolds[m].gammas) ]

\* memory right after Manifold(metric, coords) and the two Tensor(...) calls
\* that made M, a and b
HeapOf(M, a, b) ==
    [ manifolds |-> << [metric |-> M.metric, coords |-> M.coords, gammas |-> TheGammas] >>,
      tensors   |-> << [M.gammas EXCEPT !.values = 1],
                       [a EXCEPT !.values = 2],
                       [b EXCEPT !.values = 3] >>,
      dicts     |-> << M.gammas.values, a.values, b.values >> ]

\* a constructor has made the object `self`: self.values = {} is a dict of
\* its own, and it holds what the item assignments that follow put there
New(h, self) ==
    [h EXCEPT !.dicts = Append(@, self.values),
              !.tensors = Append(@, [self EXCEPT !.values = Len(h.dicts) + 1])]

\* the dict of the object at address t holds `values`
Written(h, t, values) == [h EXCEPT !.dicts[h.tensors[t].values] = values]

\* memory and outcome of an operation that computes `out` from its operands
\* and, unless it raises, returns a Tensor it has constructed
Built(h, out) ==
    IF out.exc # NoExc THEN [heap |-> h, out |-> out]
    ELSE [heap |-> New(h, out.val), out |-> Return(Len(h.tensors) + 1)]

\* copy.copy(self): a new object that holds the dict and the Manifold of self
copy_at(h, t) == [h EXCEPT !.tensors = Append(@, h.tensors[t])]

\* deepcopy(self): new objects for self, its dict, its Manifold and that
\* Manifold's connection and dict; the copy is the last object made
deepcopy_at(h, t) ==
    LET self == h.tensors[t]
        M == h.manifolds[self.manifold]
        C == h.tensors[M.gammas]
    IN  [ manifolds |-> Append(h.manifolds, [M EXCEPT !.gammas = Len(h.tensors) + 1]),
          tensors   |-> h.tensors \o
                            << [C EXCEPT !.values = Len(h.dicts) + 1],
                               [self EXCEPT !.manifold = Len(h.manifolds) + 1,
                                            !.values = Len(h.dicts) + 2] >>,
          dicts     |-> h.dicts \o << h.dicts[C.values], h.dicts[self.values] >> ]

RECURSIVE scale_stored(_, _, _, _)
\* what `result` holds when the loop of scale_loop stops, at its end or at
\* the RuntimeError
scale_stored(result, other, todo, size) ==
    IF IndexedObject_len(result) # size \/ todo = {} THEN result
    ELSE LET key == CHOOSE k \in todo : TRUE
         IN  scale_stored(SetItem(result, key, VMul(Item(result, key), other)),
                          other, todo \ {key}, size)

\* other * self and self * other in memory: the loop writes through the copy
scale_at(h, t, other) ==
    LET copied == deepcopy_at(h, t)
        ref == Len(copied.tensors)
        result == Load(copied, ref)
        out == scale_loop(result, other, DOMAIN result.values, IndexedObject_len(result))
        stored == scale_stored(result, other, DOMAIN result.values, IndexedObject_len(result))
    IN  [ heap |-> Written(copied, ref, stored.values),
          out  |-> IF out.exc # NoExc THEN out ELSE Return(ref) ]

\* self.transform(...) overwrites self and returns it
transform_in_place(h, self, new) ==
    [ heap |-> Written([h EXCEPT !.manifolds[self] =
                            [metric |-> new.metric, coords |-> new.coords,
                             gammas |-> h.manifolds[self].gammas]],
                       h.manifolds[self].gammas, new.gammas.values),
      out  |-> Return(self) ]

\* return Manifold(new_metric, new_coords): a new Manifold with a connection
\* of its own
transform_return(h, self, new) ==
    [ heap |-> [New(h, new.gammas) EXCEPT !.manifolds =
                   Append(@, [metric |-> new.metric, coords |-> new.coords,
                              gammas |-> Len(h.tensors) + 1])],
      out  |-> Return(Len(h.manifolds) + 1) ]

\* self.transform(new_coords, trans) in memory
transform_at(h, self, new_coords, trans) ==
    LET out == Manifold_transform(LoadManifold(h, self), new_coords, trans)
    IN  IF out.exc # NoExc THEN [heap |-> h, out |-> out]
        ELSE transform_return(h, self, out.val)

\* the objects that can still be reached once the caller has dropped the
\* outcome of its last call
Reachable(h) ==
    [ manifolds |-> SubSeq(h.manifolds, 1, TheManifold),
      tensors   |-> SubSeq(h.tensors, 1, Other),
      dicts     |-> SubSeq(h.dicts, 1, Other) ]

\* the entries of this specification's (r, phi) charts are expressions, those
\* of its other manifolds ints
Symbolic(M) == M.coords = <<"r", "phi">>

\* the calls that return a Tensor
TensorCalls ==
    { "add", "sub", "rmul", "mul_scalar", "mul_tensor", "contract", "lower_index",
      "raise_index", "diff", "metric", "metric_inv", "RiemannTensor" }

\* the maps that rename the coordinates of M to the new ones, with either
\* sign and listed in either order
Renamings(M) ==
    { << <<M.coords[p[1]], EPow(a, NewCoords[p[1]], 1)>>,
         <<M.coords[p[2]], EPow(b, NewCoords[p[2]], 1)>> >> :
        p \in {<<1, 2>>, <<2, 1>>}, a \in {1, -1}, b \in {1, -1} }

InitStore ==
    /\ \/ /\ manifold \in PlaneManifolds
          /\ A \in {a \in Tensors(manifold, {<<"u", "l">>}) :
                       IndexedObject_len(a) <= MaxStored}
          /\ B \in {b \in Tensors(manifold, {<<"u">>, <<"u", "l">>}) :
                       IndexedObject_len(b) <= 1}
       \/ /\ manifold \in {M \in Charts : Symbolic(M)}
          /\ A \in {a \in ExprTensors(manifold) :
                       a.idx_pos = <<"u">> /\ IndexedObject_len(a) <= MaxStored}
          /\ B = Tensor_init(manifold, <<>>, NoValues)
    /\ res = Idle
    /\ heap = HeapOf(manifold, A, B)

\* the call `op` has ended as `done` says
Ends(op, args, done) ==
    /\ res' = Call(op, args, done.out)
    /\ heap' = done.heap
    /\ UNCHANGED <<manifold, A, B>>

\* self + other
StoreAdd ==
    /\ res = Idle /\ ~Symbolic(manifold)
    /\ Ends("add", <<>>, Built(heap,
            Tensor_add(LoadManifold(heap, TheManifold), Load(heap, Self), Load(heap, Other))))

\* self - other
StoreSub ==
    /\ res = Idle /\ ~Symbolic(manifold)
    /\ Ends("sub", <<>>, Built(heap,
            Tensor_sub(LoadManifold(heap, TheManifold), Load(heap, Self), Load(heap, Other))))

\* scalar * self
StoreRMul ==
    /\ res = Idle /\ ~Symbolic(manifold)
    /\ \E scalar \in Vals : Ends("rmul", <<scalar>>, scale_at(heap, Self, scalar))

\* self * scalar
StoreMulScalar ==
    /\ res = Idle /\ ~Symbolic(manifold)
    /\ \E scalar \in Vals : Ends("mul_scalar", <<scalar>>, scale_at(heap, Self, scalar))

\* self * other
StoreMulTensor ==
    /\ res = Idle /\ ~Symbolic(manifold)
    /\ Ends("mul_tensor", <<>>, Built(heap,
            Tensor_mul_tensor(LoadManifold(heap, TheManifold),
                              Load(heap, Self), Load(heap, Other))))

\* self.contract(idx1, idx2)
StoreContract ==
    /\ res = Idle /\ ~Symbolic(manifold)
    /\ \E idx1 \in Range(rank(A)) : \E idx2 \in Range(rank(A)) \ {idx1} :
        Ends("contract", <<idx1, idx2>>, Built(heap,
            contract(LoadManifold(heap, TheManifold), Load(heap, Self), idx1, idx2)))

\* self.lower_index(idx)
StoreLowerIndex ==
    /\ res = Idle /\ ~Symbolic(manifold)
    /\ \E idx \in Range(rank(A)) :
        Ends("lower_index", <<idx>>, Built(heap,
            lower_index(LoadManifold(heap, TheManifold), Load(heap, Self), idx)))

\* self.raise_index(idx)
StoreRaiseIndex ==
    /\ res = Idle /\ ~Symbolic(manifold)
    /\ \E idx \in Range(rank(A)) :
        Ends("raise_index", <<idx>>, Built(heap,
            raise_index(LoadManifold(heap, TheManifold), Load(heap, Self), idx)))

\* self.diff()
StoreDiff ==
    /\ res = Idle /\ Symbolic(manifold)
    /\ Ends("diff", <<>>, Built(heap,
            Tensor_diff(LoadManifold(heap, TheManifold), Load(heap, Self))))

\* manifold.metric
StoreMetric ==
    /\ res = Idle /\ ~Symbolic(manifold)
    /\ Ends("metric", <<>>, Built(heap,
            Return(Manifold_metric(LoadManifold(heap, TheManifold)))))

\* manifold.metric_inv
StoreMetricInv ==
    /\ res = Idle /\ ~Symbolic(manifold)
    /\ Ends("metric_inv", <<>>, Built(heap,
            Return(Manifold_metric_inv(LoadManifold(heap, TheManifold)))))

\* manifold.dims
StoreDims ==
    /\ res = Idle
    /\ Ends("dims", <<>>,
            [heap |-> heap, out |-> Return(Manifold_dims(LoadManifold(heap, TheManifold)))])

\* manifold.transform(new_coords, trans)
StoreTransform ==
    /\ res = Idle /\ Symbolic(manifold)
    /\ \E trans \in Renamings(manifold) :
        Ends("transform", <<NewCoords, trans>>,
             transform_at(heap, TheManifold, NewCoords, trans))

\* manifold.geodesic_equations(parameter)
StoreGeodesicEquations ==
    /\ res = Idle /\ Symbolic(manifold)
    /\ \E parameter \in {"s", "phi"} :
        Ends("geodesic_equations", <<parameter>>,
             [heap |-> heap,
              out  |-> geodesic_equations(LoadManifold(heap, TheManifold), parameter)])

\* RiemannTensor(manifold)
StoreRiemann ==
    /\ res = Idle /\ Symbolic(manifold)
    /\ Ends("RiemannTensor", <<>>, Built(heap,
            RiemannTensor_init(LoadManifold(heap, TheManifold))))

\* result[key] = value, on the Tensor the last call returned
StoreWrite ==
    /\ res.op \in TensorCalls /\ res.out.exc = NoExc
    /\ LET ref == res.out.val
           result == Load(heap, ref)
       IN  \E key \in multi_indices(manifold, result) :
             IF Symbolic(manifold)
             THEN \E value \in {EZero, EConst(1)} :
                    Ends("setitem", <<key, value>>,
                         [heap |-> Written(heap, ref, ExprSetItem(result, key, value).values),
                          out  |-> Return(ref)])
             ELSE \E value \in Vals :
                    Ends("setitem", <<key, value>>,
                         [heap |-> Written(heap, ref, SetItem(result, key, value).values),
                          out  |-> Return(ref)])

\* the caller drops the outcome of its last call and goes on
Drop ==
    /\ res # Idle
    /\ res' = Idle
    /\ heap' = Reachable(heap)
    /\ UNCHANGED <<manifold, A, B>>

NextStore ==
    \/ StoreAdd \/ StoreSub \/ StoreRMul \/ StoreMulScalar \/ StoreMulTensor
    \/ StoreContract \/ StoreLowerIndex \/ StoreRaiseIndex \/ StoreDiff
    \/ StoreMetric \/ StoreMetricInv \/ StoreDims \/ StoreTransform
    \/ StoreGeodesicEquations \/ StoreRiemann \/ StoreWrite \/ Drop

SpecStore == InitStore /\ [][NextStore]_vars

---------------------------------------------------------------------------
(* Claims on component access, under SpecIdx *)

\* the index tuples an object of rank r can hold an entry at in this model
Slots(M, r) == [1 .. r -> -1 .. Manifold_dims(M)]

\* the canonical position of a coordinate
CoordPos(M, name) == CHOOSE i \in Range(Manifold_dims(M)) : M.coords[i + 1] = name

WellSpelled(M, m_idx) ==
    \A p \in DOMAIN m_idx.items :
        IF m_idx.items[p].isint THEN m_idx.items[p].i \in Range(Manifold_dims(M))
        ELSE \E q \in DOMAIN M.coords : M.coords[q] = m_idx.items[p].name

\* every name a coordinate, every int any int
NamesAreCoords(M, m_idx) ==
    \A p \in DOMAIN m_idx.items :
        m_idx.items[p].isint \/ \E q \in DOMAIN M.coords : M.coords[q] = m_idx.items[p].name

\* the index tuple with every name x_i replaced by its position i
Positions(M, m_idx) ==
    [p \in DOMAIN m_idx.items |->
        IF m_idx.items[p].isint THEN m_idx.items[p].i
        ELSE CoordPos(M, m_idx.items[p].name)]

\* the value an object holds at an index tuple: the stored one, or zero
ValueAt(obj, key) == IF key \in DOMAIN obj.values THEN obj.values[key] ELSE 0

\* C1: no stored entry has the value zero; a write of zero leaves no entry at
\* its slot and raises nothing; len() is the number of slots whose value is
\* not zero.
C1_CanonicalSparse ==
    /\ \A key \in DOMAIN A.values : A.values[key] # 0
    /\ (res.op = "setitem" /\ res.args[2] = 0 /\ WellSpelled(manifold, res.args[1]))
        => /\ res.out.exc = NoExc
           /\ Positions(manifold, res.args[1]) \notin DOMAIN A.values
    /\ res.op = "len"
        => res.out = Return(Cardinality({key \in Slots(manifold, rank(A)) :
                                            ValueAt(A, key) # 0}))

\* a zero has been written to an object that still holds an entry
C1_Witness ==
    /\ res.op = "setitem"
    /\ res.args[2] = 0
    /\ res.out.exc = NoExc
    /\ IndexedObject_len(A) >= 1

\* C2 (the claim as stated): a read or a write with an int outside [0, n) or
\* with a name that is no coordinate raises the lookup error, and a read well
\* inside returns the stored value or zero.
C2_LookupError ==
    res.op \in {"getitem", "setitem"} =>
        IF WellSpelled(manifold, res.args[1])
        THEN /\ res.out.exc = NoExc
             /\ res.op = "getitem" =>
                    res.out.val = ValueAt(A, Positions(manifold, res.args[1]))
        ELSE res.out.exc = KeyError

\* C3: a read through names returns what the read through the positions
\* returns, and a value written through any spelling of a slot is read through
\* every other spelling of it; the object may be a Christoffel connection.
C3_NamePosition ==
    /\ (res.op = "getitem" /\ NamesAreCoords(manifold, res.args[1]))
        => res.out = getitem(A, KeyIdx(Positions(manifold, res.args[1])))
    /\ (res.op = "setitem" /\ NamesAreCoords(manifold, res.args[1]))
        => /\ res.out.exc = NoExc
           /\ \A m_idx \in MultiIdx(manifold, rank(A)) :
                (/\ NamesAreCoords(manifold, m_idx)
                 /\ Positions(manifold, m_idx) = Positions(manifold, res.args[1]))
                    => getitem(A, m_idx) = Return(res.args[2])

IsChristoffel(obj) == "manifold" \notin DOMAIN obj

HasName(m_idx) == \E p \in DOMAIN m_idx.items : ~m_idx.items[p].isint
HasInt(m_idx) == \E p \in DOMAIN m_idx.items : m_idx.items[p].isint

\* a stored entry of a Christoffel connection has been read through names and
\* ints together
C3_Witness ==
    /\ IsChristoffel(A)
    /\ res.op = "getitem"
    /\ HasName(res.args[1]) /\ HasInt(res.args[1])
    /\ res.out.exc = NoExc
    /\ res.out.val # 0

---------------------------------------------------------------------------
(* Claims on the operations on two tensors, under SpecPair *)

\* the index tuples of a tensor of signature idx_pos: one of range(dims) a slot
IndexTuples(M, idx_pos) == [1 .. Len(idx_pos) -> Range(Manifold_dims(M))]

\* C4: A + B and A - B of tensors whose signatures differ raise the
\* incompatible-signature error, return no tensor and leave A and B as they
\* were.
C4_SignatureMismatch ==
    [][ (res'.op \in {"add", "sub"} /\ A.idx_pos # B.idx_pos)
            => /\ res'.out = Raise(IncompatibleIndexPositionException)
               /\ A' = A
               /\ B' = B ]_vars

\* tensors of one rank that differ in a slot, each with entries, have been
\* added
C4_Witness ==
    /\ res.op = "add"
    /\ Len(A.idx_pos) = Len(B.idx_pos)
    /\ A.idx_pos # B.idx_pos
    /\ A.values # EmptyDict /\ B.values # EmptyDict
    /\ res.out.exc = IncompatibleIndexPositionException

\* the tensor t holds f(key) at every index tuple and stores the nonzero ones
HoldsExactly(M, t, f(_)) ==
    /\ \A key \in IndexTuples(M, t.idx_pos) : ValueAt(t, key) = f(key)
    /\ DOMAIN t.values = {key \in IndexTuples(M, t.idx_pos) : f(key) # 0}

\* C5: for A and B of one signature, A + B (A - B) is a tensor of that
\* signature holding A's value plus (minus) B's value at every index, stored
\* exactly where that is not zero.
C5_AddSub ==
    (res.op \in {"add", "sub"} /\ A.idx_pos = B.idx_pos) =>
        LET sum(key) == ValueAt(A, key) + ValueAt(B, key)
            difference(key) == ValueAt(A, key) - ValueAt(B, key)
        IN  /\ res.out.exc = NoExc
            /\ res.out.val.idx_pos = A.idx_pos
            /\ res.op = "add" => HoldsExactly(manifold, res.out.val, sum)
            /\ res.op = "sub" => HoldsExactly(manifold, res.out.val, difference)
            /\ IndexedObject_len(res.out.val) =
                  Cardinality({key \in IndexTuples(manifold, A.idx_pos) :
                      ValueAt(res.out.val, key) # 0})

\* a difference in which one entry has cancelled and another has not
C5_Witness ==
    /\ res.op = "sub"
    /\ A.idx_pos = B.idx_pos
    /\ res.out.exc = NoExc
    /\ \E key \in (DOMAIN A.values) \cap (DOMAIN B.values) :
            key \notin DOMAIN res.out.val.values
    /\ \E key \in (DOMAIN B.values) \ (DOMAIN A.values) :
            key \in DOMAIN res.out.val.values

\* C7: A * B has rank rank(A) + rank(B) and A's signature followed by B's; at
\* every index tuple it holds A's value at the first rank(A) slots times B's
\* value at the others, stored exactly where both are not zero.
C7_TensorProduct ==
    res.op = "mul_tensor" =>
        LET C == res.out.val
            a(m) == ValueAt(A, SubSeq(m, 1, Len(A.idx_pos)))
            b(m) == ValueAt(B, SubSeq(m, Len(A.idx_pos) + 1, Len(m)))
            product(m) == a(m) * b(m)
        IN  /\ res.out.exc = NoExc
            /\ rank(C) = rank(A) + rank(B)
            /\ C.idx_pos = A.idx_pos \o B.idx_pos
            /\ HoldsExactly(manifold, C, product)
            /\ DOMAIN C.values =
                  {m \in IndexTuples(manifold, C.idx_pos) : a(m) # 0 /\ b(m) # 0}

\* a product of a rank-2 and a rank-1 tensor with stored and unstored entries
C7_Witness ==
    /\ res.op = "mul_tensor"
    /\ rank(A) = 2 /\ rank(B) = 1
    /\ res.out.exc = NoExc
    /\ IndexedObject_len(res.out.val) = 2
    /\ \E m \in DOMAIN res.out.val.values : m[1] # m[2] /\ m[2] # m[3]

---------------------------------------------------------------------------
(* Claims on the operations on one tensor, under SpecOne *)

\* C6: scalar * A and A * scalar, for every scalar, zero included, return a
\* tensor of A's signature holding A's value times the scalar at every index,
\* stored exactly where that is not zero; both orders give the same entries.
C6_ScalarMultiply ==
    res.op \in {"rmul", "mul_scalar"} =>
        LET scalar == res.args[1]
            scaled(key) == ValueAt(A, key) * scalar
        IN  /\ res.out.exc = NoExc
            /\ res.out.val.idx_pos = A.idx_pos
            /\ HoldsExactly(manifold, res.out.val, scaled)
            /\ Tensor_rmul(A, scalar) = Tensor_mul_scalar(A, scalar)

\* the slots of a signature s other than the 0-based slots i and j, in order
KeptSlots(s, i, j) ==
    LET kept == (1 .. Len(s)) \ {i + 1, j + 1}
    IN  [q \in 1 .. (Len(s) - 2) |->
            CHOOSE p \in kept : Cardinality({x \in kept : x < p}) = q - 1]

\* the index tuple with k in the 0-based slots i and j and m elsewhere
Filled(s, i, j, m, k) ==
    LET kept == KeptSlots(s, i, j)
    IN  [p \in 1 .. Len(s) |->
            IF p \in {i + 1, j + 1} THEN k
            ELSE m[CHOOSE q \in DOMAIN kept : kept[q] = p]]

RECURSIVE Sigma(_, _)
\* f[0] + ... + f[n - 1]
Sigma(f, n) == IF n = 0 THEN 0 ELSE Sigma(f, n - 1) + f[n - 1]

\* C8: A.contract(i, j), for different slots i and j in either order, has rank
\* rank(A) - 2 and A's signature without the slots i and j, the others in
\* their order; at every index tuple m it holds the sum over k of A's value at
\* the tuple with k in the slots i and j and m elsewhere, stored exactly where
\* the sum is not zero.
C8_Contraction ==
    res.op = "contract" =>
        LET i == res.args[1]
            j == res.args[2]
            C == res.out.val
            n == Manifold_dims(manifold)
            kept == KeptSlots(A.idx_pos, i, j)
            trace(m) ==
                Sigma([k \in Range(n) |-> ValueAt(A, Filled(A.idx_pos, i, j, m, k))], n)
        IN  /\ res.out.exc = NoExc
            /\ rank(C) = rank(A) - 2
            /\ C.idx_pos = [q \in DOMAIN kept |-> A.idx_pos[kept[q]]]
            /\ HoldsExactly(manifold, C, trace)

\* a rank-3 tensor contracted over its first two slots, the higher slot named
\* first, where one sum has two terms and does not vanish
C8_Witness ==
    /\ res.op = "contract"
    /\ rank(A) = 3
    /\ res.args = <<1, 0>>
    /\ res.out.exc = NoExc
    /\ \E m \in DOMAIN res.out.val.values :
            /\ <<0, 0, m[1]>> \in DOMAIN A.values
            /\ <<1, 1, m[1]>> \in DOMAIN A.values
            /\ A.idx_pos[3] = res.out.val.idx_pos[1]

\* C9: raise_index on a slot that is upper and lower_index on a slot that is
\* lower raise the incompatible-position error, return no tensor and leave the
\* tensor's signature and entries as they were.
C9_AlreadyThere ==
    [][ (\/ res'.op = "raise_index" /\ A.idx_pos[res'.args[1] + 1] = "u"
         \/ res'.op = "lower_index" /\ A.idx_pos[res'.args[1] + 1] = "l")
            => /\ res'.out = Raise(IncompatibleIndexPositionException)
               /\ A'.idx_pos = A.idx_pos
               /\ A'.values = A.values ]_vars

\* a tensor with entries and an upper and a lower slot was asked to raise its
\* upper slot
C9_Witness ==
    /\ res.op = "raise_index"
    /\ rank(A) = 2
    /\ A.idx_pos = <<"l", "u">>
    /\ res.args = <<1>>
    /\ A.values # EmptyDict
    /\ res.out.exc = IncompatibleIndexPositionException

\* h is the inverse of the n x n matrix g
IsInverse(h, g, n) ==
    \A i \in Range(n), j \in Range(n) :
        Sigma([k \in Range(n) |-> g[<<i, k>>] * h[<<k, j>>]], n)
            = (IF i = j THEN 1 ELSE 0)

\* C10: A.lower_index(s), s an upper slot, has A's signature with slot s lower
\* and every other slot as it was; at every index tuple m it holds the sum
\* over tau of g[m[s], tau] times A's value at m with tau in slot s, g the
\* metric. A.raise_index(s), s a lower slot, is the same with the inverse
\* metric and slot s upper.
C10_LowerRaise ==
    LET lowering == res.op = "lower_index" /\ A.idx_pos[res.args[1] + 1] = "u"
        raising == res.op = "raise_index" /\ A.idx_pos[res.args[1] + 1] = "l"
    IN  (lowering \/ raising) =>
            LET s == res.args[1] + 1
                n == Manifold_dims(manifold)
                g == IF lowering THEN manifold.metric
                     ELSE MatrixInv(manifold.metric, n)
                moved(m) ==
                    Sigma([tau \in Range(n) |->
                              g[<<m[s], tau>>] * ValueAt(A, [m EXCEPT ![s] = tau])], n)
                C == res.out.val
            IN  /\ raising => IsInverse(g, manifold.metric, n)
                /\ res.out.exc = NoExc
                /\ rank(C) = rank(A)
                /\ \A p \in 1 .. rank(A) :
                        C.idx_pos[p] = IF p # s THEN A.idx_pos[p]
                                       ELSE IF lowering THEN "l" ELSE "u"
                /\ HoldsExactly(manifold, C, moved)

\* the second slot of a rank-2 tensor lowered with a metric that is not
\* diagonal: an entry of the result is a sum of two terms neither of which is
\* zero
C10_Witness ==
    /\ res.op = "lower_index"
    /\ A.idx_pos = <<"l", "u">>
    /\ res.args = <<1>>
    /\ res.out.exc = NoExc
    /\ res.out.val.idx_pos = <<"l", "l">>
    /\ manifold.metric[<<0, 1>>] # 0
    /\ \E m \in DOMAIN res.out.val.values :
            /\ <<m[1], 0>> \in DOMAIN A.values
            /\ <<m[1], 1>> \in DOMAIN A.values

\* the metric matrix has nothing off its diagonal
IsDiagonal(g, n) == \A i \in Range(n), j \in Range(n) : i # j => g[<<i, j>>] = 0

---------------------------------------------------------------------------
(* Claims on manifolds, under SpecManifold *)

\* the manifolds of a state: the one every call is made on and, after a
\* construction or a transform that returned, the one returned
ManifoldsAt ==
    {manifold} \cup (IF res.op \in {"Manifold", "transform"} /\ res.out.exc = NoExc
                     THEN {res.out.val} ELSE {})

IsSquareOf(M) ==
    /\ MatrixRows(M.metric) = Manifold_dims(M)
    /\ MatrixCols(M.metric) = Manifold_dims(M)

\* twice the connection coefficient of the claim, h the inverse metric
TwiceGamma(M, h, mu, alpha, beta) ==
    LET n == Manifold_dims(M)
        g == M.metric
        x == M.coords
    IN  ESum([nu \in Range(n) |->
                 EMul(h[<<mu, nu>>],
                      ESub(EAdd(EDiff(g[<<alpha, nu>>], x[beta + 1]),
                                EDiff(g[<<nu, beta>>], x[alpha + 1])),
                           EDiff(g[<<alpha, beta>>], x[nu + 1])))], n)

IsConstant(expr) == DOMAIN expr \subseteq {Unit}

\* C14: the connection of a manifold stores an entry at (mu, alpha, beta)
\* exactly when half the sum over nu of g_inv[mu, nu] * (d g[alpha, nu]/dx_beta
\* + d g[nu, beta]/dx_alpha - d g[alpha, beta]/dx_nu) is not zero, and stores
\* that value; a constant metric gives no entry, diag(1, r^2) over (r, phi)
\* the three entries -r, 1/r, 1/r.
C14_Connection ==
    \A M \in {X \in ManifoldsAt : IsSquareOf(X)} :
        LET n == Manifold_dims(M)
            h == EMatrixInv(M.metric, n)
            stored == M.gammas.values
        IN  /\ EMatMul(M.metric, h, n) = EDiag([i \in 1 .. n |-> EConst(1)])
            /\ M.gammas.idx_pos = <<"u", "l", "l">>
            /\ DOMAIN stored =
                  {k \in Range(n) \X Range(n) \X Range(n) :
                      TwiceGamma(M, h, k[1], k[2], k[3]) # EZero}
            /\ \A k \in DOMAIN stored :
                  EAdd(stored[k], stored[k]) = TwiceGamma(M, h, k[1], k[2], k[3])
            /\ (\A ij \in DOMAIN M.metric : IsConstant(M.metric[ij]))
                  => IndexedObject_len(M.gammas) = 0
            /\ (M.metric = Polar.metric /\ M.coords = <<"r", "phi">>)
                  => stored = [k \in {<<0, 1, 1>>, <<1, 0, 1>>, <<1, 1, 0>>} |->
                                  IF k = <<0, 1, 1>> THEN EPow(-1, "r", 1)
                                  ELSE EPow(1, "r", -1)]

\* Manifold(diag(1, r ** 2), (r, phi)) has returned a manifold whose connection
\* holds three entries
C14_Witness ==
    /\ res.op = "Manifold"
    /\ res.out.exc = NoExc
    /\ res.out.val.metric = Polar.metric
    /\ res.out.val.coords = <<"r", "phi">>
    /\ IndexedObject_len(res.out.val.gammas) = 3

\* the curvature component of the claim, Gamma the connection of M
Curvature(M, alpha, beta, mu, nu) ==
    LET n == Manifold_dims(M)
        Gamma(a, b, c) == ExprItem(M.gammas, <<a, b, c>>)
        x == M.coords
    IN  EAdd(ESub(EDiff(Gamma(alpha, beta, nu), x[mu + 1]),
                  EDiff(Gamma(alpha, beta, mu), x[nu + 1])),
             ESum([sigma \in Range(n) |->
                      ESub(EMul(Gamma(alpha, sigma, mu), Gamma(sigma, beta, nu)),
                           EMul(Gamma(alpha, sigma, nu), Gamma(sigma, beta, mu)))], n))

\* C15: RiemannTensor(manifold) has signature 'ulll' and stores at
\* (alpha, beta, mu, nu) exactly the nonzero values of d Gamma[alpha, beta, nu]
\* /dx_mu - d Gamma[alpha, beta, mu]/dx_nu + sum over sigma of
\* (Gamma[alpha, sigma, mu] * Gamma[sigma, beta, nu] - Gamma[alpha, sigma, nu]
\* * Gamma[sigma, beta, mu]); on the Euclidean plane, in Cartesian and in polar
\* coordinates, it stores nothing.
C15_Riemann ==
    res.op = "RiemannTensor" =>
        LET R == res.out.val
            n == Manifold_dims(manifold)
            keys == Range(n) \X Range(n) \X Range(n) \X Range(n)
        IN  /\ res.out.exc = NoExc
            /\ R.idx_pos = <<"u", "l", "l", "l">>
            /\ DOMAIN R.values =
                  {k \in keys : Curvature(manifold, k[1], k[2], k[3], k[4]) # EZero}
            /\ \A k \in DOMAIN R.values :
                  R.values[k] = Curvature(manifold, k[1], k[2], k[3], k[4])
            /\ (manifold = Polar \/ manifold.metric = EDiag(<<EConst(1), EConst(1)>>))
                  => IndexedObject_len(R) = 0

\* the Riemann tensor of the surface diag(1, r^4): the derivative -6 r^2 and
\* the product 4 r^2 of connection entries leave -2 r^2
C15_Witness ==
    /\ res.op = "RiemannTensor"
    /\ res.out.exc = NoExc
    /\ manifold.metric = EDiag(<<EConst(1), EPow(1, "r", 4)>>)
    /\ ExprItem(res.out.val, <<0, 1, 0, 1>>) = EPow(-2, "r", 2)
    /\ ExprItem(res.out.val, <<0, 1, 1, 0>>) = EPow(2, "r", 2)

\* C16: Manifold(metric, coords) raises, and returns no manifold, whenever the
\* metric is not a square matrix of len(coords) rows: not square, square and
\* smaller, square and larger.
C16_ShapeRejected ==
    (res.op = "Manifold"
        /\ ~(/\ MatrixRows(res.args[1]) = Len(res.args[2])
             /\ MatrixCols(res.args[1]) = Len(res.args[2])))
        => res.out.exc # NoExc

\* the expression the map gives for a coordinate
GivenFor(trans, name) == trans[CHOOSE t \in DOMAIN trans : trans[t][1] = name][2]

\* the metric of the claim: g'[i, j], g the metric of M in the new coordinates
Transformed(M, new_coords, trans, i, j) ==
    LET n == Manifold_dims(M)
        d(k, y) == EDiff(GivenFor(trans, M.coords[k + 1]), new_coords[y + 1])
    IN  ESum([k \in Range(n) |->
            ESum([l \in Range(n) |->
                EMul(EMul(ESubs(M.metric[<<k, l>>], trans), d(k, i)), d(l, j))], n)], n)

\* C17: transform(new_coords, trans) returns a manifold over new_coords whose
\* metric is g'[i, j] = sum over k, l of g[k, l] * dx_k/dy_i * dx_l/dy_j,
\* whatever the order in which trans lists the old coordinates.
C17_Transform ==
    res.op = "transform" =>
        LET new_coords == res.args[1]
            trans == res.args[2]
            n == Len(new_coords)
        IN  /\ res.out.exc = NoExc
            /\ res.out.val.coords = new_coords
            /\ \A i \in Range(n), j \in Range(n) :
                  res.out.val.metric[<<i, j>>] =
                      Transformed(manifold, new_coords, trans, i, j)

\* C18: geodesic_equations returns the curve parameter and exactly n
\* equations in coordinate order; the i-th has d^2 x_i/ds^2 on the left and on
\* the right the sum over j, k of Gamma[i, j, k] * dx_j/ds * dx_k/ds, which is
\* zero when the connection stores nothing.
C18_Geodesics ==
    (res.op = "geodesic_equations"
        /\ \A p \in DOMAIN manifold.coords : manifold.coords[p] # res.args[1]) =>
        LET n == Manifold_dims(manifold)
            x == manifold.coords
            eqs == res.out.val[1]
            velocity(j) == EDerivative(x[j + 1])
            right(i) ==
                ESum([j \in Range(n) |->
                    ESum([k \in Range(n) |->
                        EMul(ExprItem(manifold.gammas, <<i, j, k>>),
                             EMul(velocity(j), velocity(k)))], n)], n)
        IN  /\ res.out.exc = NoExc
            /\ res.out.val[2] = res.args[1]
            /\ Len(eqs) = n
            /\ \A i \in Range(n) :
                  /\ eqs[i + 1].lhs = [Derivative |-> x[i + 1], order |-> 2]
                  /\ eqs[i + 1].rhs = right(i)
                  /\ IndexedObject_len(manifold.gammas) = 0 => eqs[i + 1].rhs = EZero
            /\ manifold = Polar =>
                  /\ eqs[1].rhs = EMul(EPow(-1, "r", 1),
                                       EMul(EDerivative("phi"), EDerivative("phi")))
                  /\ eqs[2].rhs = EMul(EPow(2, "r", -1),
                                       EMul(EDerivative("r"), EDerivative("phi")))

\* the equations of the polar plane: the second has the two equal terms of
\* Gamma[1, 0, 1] and Gamma[1, 1, 0] on its right
C18_Witness ==
    /\ res.op = "geodesic_equations"
    /\ res.out.exc = NoExc
    /\ manifold = Polar
    /\ Len(res.out.val[1]) = 2
    /\ \E k \in DOMAIN res.out.val[1][2].rhs : res.out.val[1][2].rhs[k] = 2

---------------------------------------------------------------------------
(* Claims on the covariant derivative, under SpecDiff *)

\* the correction of slot p (0-based) to the derivative of T at (m, sigma)
Correction(M, T, m, sigma, p) ==
    LET n == Manifold_dims(M)
        moved(alpha) == ExprItem(T, [m EXCEPT ![p + 1] = alpha])
    IN  IF T.idx_pos[p + 1] = "u"
        THEN ESum([alpha \in Range(n) |->
                      EMul(moved(alpha), ExprItem(M.gammas, <<m[p + 1], alpha, sigma>>))], n)
        ELSE ENeg(ESum([alpha \in Range(n) |->
                      EMul(moved(alpha), ExprItem(M.gammas, <<alpha, m[p + 1], sigma>>))], n))

\* C19: A.diff() has rank rank(A) + 1 and A's signature followed by a lower
\* slot; at (m, sigma) it holds d A[m]/dx_sigma plus, for every upper slot p,
\* the sum over alpha of A[m with alpha in slot p] * Gamma[m[p], alpha, sigma],
\* minus, for every lower slot p, the sum over alpha of A[m with alpha in slot
\* p] * Gamma[alpha, m[p], sigma]; it stores exactly the values that are not
\* zero, and with an empty connection these are the partial derivatives.
C19_CovariantDerivative ==
    res.op = "diff" =>
        LET D == res.out.val
            r == rank(A)
            n == Manifold_dims(manifold)
            partial(key) == EDiff(ExprItem(A, SubSeq(key, 1, r)), manifold.coords[key[r + 1] + 1])
            expected(key) ==
                EAdd(partial(key),
                     ESum([p \in Range(r) |->
                              Correction(manifold, A, SubSeq(key, 1, r), key[r + 1], p)], r))
            keys == [1 .. (r + 1) -> Range(n)]
        IN  /\ res.out.exc = NoExc
            /\ rank(D) = r + 1
            /\ D.idx_pos = A.idx_pos \o <<"l">>
            /\ DOMAIN D.values = {key \in keys : expected(key) # EZero}
            /\ \A key \in DOMAIN D.values : D.values[key] = expected(key)
            /\ IndexedObject_len(manifold.gammas) = 0 =>
                  \A key \in keys : ExprItem(D, key) = partial(key)

\* the derivative of a tensor with an upper and a lower slot on the polar
\* plane: one entry is not the partial derivative, and one partial derivative
\* that is not zero is stored
C19_Witness ==
    /\ res.op = "diff"
    /\ res.out.exc = NoExc
    /\ manifold = Polar
    /\ A.idx_pos = <<"u", "l">>
    /\ \E key \in DOMAIN res.out.val.values :
            res.out.val.values[key] # EDiff(ExprItem(A, SubSeq(key, 1, 2)),
                                            manifold.coords[key[3] + 1])
    /\ \E key \in DOMAIN res.out.val.values :
            EDiff(ExprItem(A, SubSeq(key, 1, 2)), manifold.coords[key[3] + 1]) # EZero

---------------------------------------------------------------------------
(* Claims on contraction over any pair of ints, under SpecContract *)

\* C20: A.contract(i, j) with i = j, or with i or j outside [0, rank), raises
\* and returns no tensor.
C20_InvalidSlots ==
    (res.op = "contract"
        /\ (\/ res.args[1] = res.args[2]
            \/ res.args[1] \notin Range(rank(A))
            \/ res.args[2] \notin Range(rank(A))))
        => res.out.exc # NoExc

---------------------------------------------------------------------------
(* Claims on the objects in memory, under SpecStore *)

\* the tensor operations that take self, or self and other
OperandCalls ==
    { "add", "sub", "rmul", "mul_scalar", "mul_tensor", "contract", "lower_index",
      "raise_index", "diff" }

\* the object at address t and its dict are neither operand nor an operand's
Apart(t) ==
    /\ t \notin {Self, Other}
    /\ heap.tensors[t].values \notin {heap.tensors[Self].values, heap.tensors[Other].values}

\* C12: after add, subtract, scalar multiply from either side, tensor product,
\* contract, raise_index, lower_index or diff, whether the call returned or
\* raised, and after a later item assignment to the tensor a call returned,
\* self and other have the signature and the stored entries they were made
\* with, and the returned tensor is an object with a dict of its own.
C12_OperandsKept ==
    res.op \in OperandCalls \cup {"setitem"} =>
        /\ Load(heap, Self) = A
        /\ Load(heap, Other) = B
        /\ res.out.exc = NoExc => Apart(res.out.val)

\* an entry self stores has been overwritten, with another value, in a result
\* of self's signature
C12_Witness ==
    /\ res.op = "setitem"
    /\ Load(heap, res.out.val).idx_pos = A.idx_pos
    /\ res.args[1] \in DOMAIN A.values
    /\ A.values[res.args[1]] # res.args[2]
    /\ Load(heap, Self) = A

\* C13: whatever calls of metric, metric_inv, dims, transform and
\* geodesic_equations, tensor operations, RiemannTensor constructions and item
\* assignments to returned tensors have been made, the manifold has the
\* coordinates, the metric and the connection entries it was constructed
\* with; and the Manifold transform returns is another object.
C13_ManifoldKept ==
    /\ LoadManifold(heap, TheManifold) = manifold
    /\ (res.op = "transform" /\ res.out.exc = NoExc) => res.out.val # TheManifold

\* transform has returned a Manifold over the new coordinates, whose metric
\* is not the receiver's, and the receiver's connection stores entries
C13_Witness ==
    /\ res.op = "transform"
    /\ res.out.exc = NoExc
    /\ LoadManifold(heap, res.out.val).coords = NewCoords
    /\ LoadManifold(heap, res.out.val).metric # manifold.metric
    /\ DOMAIN manifold.gammas.values # {}
    /\ LoadManifold(heap, TheManifold) = manifold

---------------------------------------------------------------------------
(* Claims on lowering and raising against product and contraction, under
   SpecSlot *)

\* what the product with the metric (lower_index) or with the inverse metric
\* (raise_index), contracted over slots 1 and 2 + idx, gives for the last call
ByProduct ==
    by_product(ManifoldOf(A),
               IF res.op = "lower_index" THEN Manifold_metric(ManifoldOf(A))
               ELSE Manifold_metric_inv(ManifoldOf(A)),
               A, res.args[1]).val

\* the tensor t with its slot 0 moved to slot s
Moved(t, s) ==
    [t EXCEPT !.idx_pos = Ins(Del(t.idx_pos, 0), s, t.idx_pos[1]),
              !.values = [k \in {Ins(Del(key, 0), s, key[1]) : key \in DOMAIN t.values} |->
                             t.values[<<k[s + 1]>> \o Del(k, s)]]]

\* a lower_index or raise_index call has returned a tensor
SlotFlipped == res.op \in {"lower_index", "raise_index"} /\ res.out.exc = NoExc

\* C21 as stated: T.lower_index(s) has the signature and the stored entries
\* of (metric * T).contract(1, 2 + s), and T.raise_index(s) those of
\* (metric_inv * T).contract(1, 2 + s).
C21_AsProduct ==
    SlotFlipped =>
        /\ res.out.val.idx_pos = ByProduct.idx_pos
        /\ res.out.val.values = ByProduct.values

\* C21, amended: T.lower_index(s) and T.raise_index(s) have the signature and
\* the stored entries of that contracted product with its slot 0, the slot
\* the metric brings in, moved to slot s.
C21_AsProductMoved ==
    SlotFlipped => res.out.val = Moved(ByProduct, res.args[1])

\* slot 1 of a tensor of rank 2 has been lowered or raised and the outcome
\* is not its own transpose
C21_Witness ==
    /\ SlotFlipped
    /\ res.args[1] = 1
    /\ rank(A) = 2
    /\ \E key \in DOMAIN res.out.val.values :
          Item(res.out.val, key) # Item(res.out.val, <<key[2], key[1]>>)

---------------------------------------------------------------------------
(* Claims on simplify, under SpecSimplify *)

\* C22: simplify() completes without raising; afterwards the object stores
\* exactly the keys whose simplified value is not zero, each with its
\* simplified value, also when entries simplify to zero.
C22_SimplifyCompletes ==
    res.op = "simplify" =>
        LET before == res.args[1]
        IN  /\ res.out.exc = NoExc
            /\ DOMAIN A.values =
                   {k \in DOMAIN before.values : ~EIsZero(sp_simplify(before.values[k]))}
            /\ \A k \in DOMAIN A.values : A.values[k] = sp_simplify(before.values[k])

---------------------------------------------------------------------------
(* Claims on the Manifold instance of a result, under SpecStore *)

\* C23: the tensor returned by add, subtract, scalar multiply from either
\* side, tensor product, contract, raise_index, lower_index or diff is bound
\* to the Manifold object self is bound to.
C23_SameManifold ==
    (res.op \in OperandCalls /\ res.out.exc = NoExc) =>
        heap.tensors[res.out.val].manifold = heap.tensors[Self].manifold

=============================================================================
